---- MODULE Spec2Model ----
(***************************************************************************)
(* SARI bookkeeping application (src/App.tsx): the import pipeline         *)
(* (processFile), the manual-entry, settlement and delete handlers, the    *)
(* IndexedDB stores they write and the React state they keep, and the      *)
(* memoized statistics computed from the transaction set.                  *)
(*                                                                         *)
(* Specifications.                                                         *)
(*  - Spec: the handlers and their interleavings.                          *)
(*  - SpecClassify, SpecHeader: the row classifier and the header          *)
(*    detection of the import over families of grids.                      *)
(*  - SpecViews: dashboardStats, reportStats and debtList over small       *)
(*    transaction sets, with the edit modal.                               *)
(*  - SpecRanks: weeklyData, topProducts, topDebtors and busiestDay over   *)
(*    transaction sets of a week, with the edit modal.                     *)
(*  - SpecChart: optimizeChartData over series of every length.            *)
(*  - SpecFair: the import, the reload, clear-all and the notice timer     *)
(*    with the fairness their scheduling gives.                            *)
(*                                                                         *)
(* Conventions.                                                            *)
(*  - A JavaScript string is a sequence of one-character strings; Arabic   *)
(*    letters are written by name ("ar_dal").                              *)
(*  - A JavaScript number is an integer count of hundredths (Scale), so    *)
(*    1234.56 is 123456; NaN is carried by the nan field of a Num.         *)
(*  - An async handler is a task: one action for the code up to its first  *)
(*    await, and one action per await (the awaited store operation and     *)
(*    the code that follows it up to the next await).                      *)
(*  - The numbers of the statistics are exact fractions (Q).               *)
(***************************************************************************)
EXTENDS Integers, Sequences, FiniteSets, Bags, TLC

VARIABLES
  transactions,     \* React state: Transaction[] (line 246)
  inventory,        \* React state: InventoryItem[] (line 247)
  db,               \* IndexedDB object store 'transactions', keyPath id
  invDb,            \* IndexedDB object store 'inventory', keyPath id
  isUploading,      \* React state (line 241)
  error,            \* React state: string | null, "" for null (line 242)
  today,            \* the calendar day the clock shows
  tasks,            \* the async handlers in flight, a bag
  ops,              \* number of handler invocations so far
  lastImport,       \* history: how the last import to answer ended
  manualSold,       \* history: recorded manual sales/debts per item
  grid,             \* the decoded grid last handed to worker.onmessage
  batch,            \* newTxs built from it
  view              \* the memoized value last computed, with the inputs it was computed from

vars == <<transactions, inventory, db, invDb, isUploading, error, today, tasks,
          ops, lastImport, manualSold, grid, batch, view>>

(***************************************************************************)
(* Bounds                                                                  *)
(***************************************************************************)
\* distinct values generateId may return
NumIds == 2
\* handlers in flight at a time
MaxTasks == 2
\* handler invocations in a behaviour
MaxOps == 3
\* calendar days the clock goes through
MaxDay == 2
\* data rows of a grid handed to the classifier
MaxDataRows == 2
\* quantity of the stored item at the start
InitQty == 2
\* most rows standing above the header-like row of an uploaded grid
MaxLead == 10
\* records of the transaction set the memoized values are computed from
MaxViewTx == 2
\* edits saved in a behaviour of the memoized-value specification
MaxEdits == 1
\* points of the longest series handed to the chart sampling
MaxSeries == 205
\* records of the transaction set the weekly buckets and the rankings are
\* computed from
MaxRankTx == 8

\* hundredths
Scale == 10 * 10

(***************************************************************************)
(* Strings                                                                 *)
(***************************************************************************)
Digits == {"0", "1", "2", "3", "4", "5", "6", "7", "8", "9"}

DigitChars == <<"0", "1", "2", "3", "4", "5", "6", "7", "8", "9">>

DigitVal(c) == CHOOSE v \in 0..9 : DigitChars[v + 1] = c

UpperCase == <<"A", "B", "C", "D", "E", "F", "G", "H", "I", "J", "K", "L", "M",
               "N", "O", "P", "Q", "R", "S", "T", "U", "V", "W", "X", "Y", "Z">>

LowerCase == <<"a", "b", "c", "d", "e", "f", "g", "h", "i", "j", "k", "l", "m",
               "n", "o", "p", "q", "r", "s", "t", "u", "v", "w", "x", "y", "z">>

UpperSet == {UpperCase[i] : i \in 1..26}

LowerOf == [c \in UpperSet |-> LowerCase[CHOOSE i \in 1..26 : UpperCase[i] = c]]

LowerChar(c) == IF c \in UpperSet THEN LowerOf[c] ELSE c

toLowerCase(s) == [i \in 1..Len(s) |-> LowerChar(s[i])]

\* String.prototype.includes: k occurs in s as a contiguous substring
includes(s, k) ==
  \E i \in 0..(Len(s) - Len(k)) : SubSeq(s, i + 1, i + Len(k)) = k

\* s.match(/\d{4}-\d{2}-\d{2}/): the pattern is not anchored
matchesDatePattern(s) ==
  \E i \in 1..(Len(s) - 9) :
     /\ \A j \in {0, 1, 2, 3, 5, 6, 8, 9} : s[i + j] \in Digits
     /\ s[i + 4] = "-"
     /\ s[i + 7] = "-"

\* rawPrice.replace(/[^0-9.]/g, '')
stripNonNumeric(s) == SelectSeq(s, LAMBDA c : c \in Digits \/ c = ".")

(***************************************************************************)
(* Numbers                                                                 *)
(***************************************************************************)
NaN == [nan |-> TRUE, v |-> 0]

Num(n) == [nan |-> FALSE, v |-> n]

\* length of the longest prefix of s made of digits
RECURSIVE DigitRun(_)
DigitRun(s) ==
  IF s = << >> \/ Head(s) \notin Digits THEN 0 ELSE 1 + DigitRun(Tail(s))

RECURSIVE DigitsValue(_)
DigitsValue(s) ==
  IF s = << >> THEN 0 ELSE DigitsValue(SubSeq(s, 1, Len(s) - 1)) * 10 + DigitVal(s[Len(s)])

\* parseFloat on a string of digits and dots (other characters end the
\* number): digits, then optionally a dot and digits; no digit at all is NaN.
\* Fraction digits beyond the second are below the model's resolution.
parseFloat(s) ==
  LET ni == DigitRun(s)
      rest == SubSeq(s, ni + 1, Len(s))
      hasDot == rest # << >> /\ Head(rest) = "."
      nf == IF hasDot THEN DigitRun(Tail(rest)) ELSE 0
      frac == IF hasDot THEN SubSeq(Tail(rest), 1, nf) ELSE << >>
      f1 == IF nf >= 1 THEN DigitVal(frac[1]) ELSE 0
      f2 == IF nf >= 2 THEN DigitVal(frac[2]) ELSE 0
  IN  IF ni = 0 /\ nf = 0 THEN NaN
      ELSE Num(DigitsValue(SubSeq(s, 1, ni)) * Scale + f1 * 10 + f2)

Abs(n) == IF n < 0 THEN 0 - n ELSE n

RECURSIVE NatToStr(_)
NatToStr(n) ==
  IF n < 10 THEN <<DigitChars[n + 1]>>
  ELSE NatToStr(n \div 10) \o <<DigitChars[(n % 10) + 1]>>

\* String(n) for a number n given in hundredths
NumToStr(n) ==
  LET a == Abs(n)
      ip == a \div Scale
      fp == a % Scale
      fs == IF fp = 0 THEN << >>
            ELSE IF fp % 10 = 0 THEN <<".", DigitChars[(fp \div 10) + 1]>>
            ELSE <<".", DigitChars[(fp \div 10) + 1], DigitChars[(fp % 10) + 1]>>
  IN  (IF n < 0 THEN <<"-">> ELSE << >>) \o NatToStr(ip) \o fs

(***************************************************************************)
(* Cells of the decoded grid: number | string | empty                      *)
(***************************************************************************)
Empty == [t |-> "empty", n |-> 0, s |-> << >>]

NumCell(n) == [t |-> "num", n |-> n, s |-> << >>]

StrCell(s) == [t |-> "str", n |-> 0, s |-> s]

\* row[i]: an index past the end of the row reads undefined (0-based index)
CellAt(row, idx) == IF idx + 1 \in DOMAIN row THEN row[idx + 1] ELSE Empty

\* JavaScript truthiness of a cell: non-empty string or non-zero number
Truthy(cell) ==
  \/ cell.t = "str" /\ cell.s # << >>
  \/ cell.t = "num" /\ cell.n # 0

\* String(cell)
CellToString(cell) ==
  CASE cell.t = "str" -> cell.s
    [] cell.t = "num" -> NumToStr(cell.n)
    [] OTHER -> <<"u", "n", "d", "e", "f", "i", "n", "e", "d">>

RECURSIVE joinCells(_)
\* row.join(' '): empty cells contribute the empty string
joinCells(row) ==
  IF row = << >> THEN << >>
  ELSE LET h == IF Head(row).t = "empty" THEN << >> ELSE CellToString(Head(row))
       IN  IF Len(row) = 1 THEN h ELSE h \o <<" ">> \o joinCells(Tail(row))

RECURSIVE trimLeft(_)
trimLeft(s) == IF s # << >> /\ Head(s) = " " THEN trimLeft(Tail(s)) ELSE s

RECURSIVE trimRight(_)
trimRight(s) ==
  IF s # << >> /\ s[Len(s)] = " " THEN trimRight(SubSeq(s, 1, Len(s) - 1)) ELSE s

trim(s) == trimRight(trimLeft(s))

(***************************************************************************)
(* processFile, header detection (src/App.tsx 637-664)                     *)
(***************************************************************************)
S_name == <<"n", "a", "m", "e">>
S_menu_item_name == <<"m", "e", "n", "u", "_", "i", "t", "e", "m", "_", "n", "a", "m", "e">>
S_product == <<"p", "r", "o", "d", "u", "c", "t">>
S_actual_selling_price == <<"a", "c", "t", "u", "a", "l", "_", "s", "e", "l", "l", "i", "n", "g", "_", "p", "r", "i", "c", "e">>
S_price == <<"p", "r", "i", "c", "e">>
S_amount == <<"a", "m", "o", "u", "n", "t">>
S_date == <<"d", "a", "t", "e">>
S_time == <<"t", "i", "m", "e">>

NameLabels == {S_menu_item_name, S_name, S_product}
PriceLabels == {S_actual_selling_price, S_price, S_amount}
DateLabels == {S_date, S_time}

\* rowStr.includes('menu_item_name') || rowStr.includes('name')
isHeaderRow(row) ==
  LET rowStr == toLowerCase(joinCells(row))
  IN  includes(rowStr, S_menu_item_name) \/ includes(rowStr, S_name)

\* a column search in which the first matching cell wins
lastLabelledMutFirst(row, labels) ==
  LET hits == {idx \in 0..(Len(row) - 1) :
                 trim(toLowerCase(CellToString(row[idx + 1]))) \in labels}
  IN  IF hits = {} THEN -1 ELSE CHOOSE m \in hits : \A h \in hits : m <= h

\* the forEach over the header cells: a later matching cell overwrites an
\* earlier one; -1 when no cell matches (0-based indices)
lastLabelled(row, labels) ==
  LET hits == {idx \in 0..(Len(row) - 1) :
                 trim(toLowerCase(CellToString(row[idx + 1]))) \in labels}
  IN  IF hits = {} THEN -1 ELSE CHOOSE m \in hits : \A h \in hits : h <= m

\* a header search over every row of the grid, without the limit of 10
headerRowIndexMutNoLimit(rows) ==
  LET cand == {i \in 0..(Len(rows) - 1) : isHeaderRow(rows[i + 1])}
  IN  IF cand = {} THEN -1 ELSE CHOOSE m \in cand : \A h \in cand : m <= h

\* first i < min(rows.length, 10) whose row is a header row, else -1
headerRowIndex(rows) ==
  LET cand == {i \in 0..(Len(rows) - 1) : i < 10 /\ isHeaderRow(rows[i + 1])}
  IN  IF cand = {} THEN -1 ELSE CHOOSE m \in cand : \A h \in cand : m <= h

\* column indices after the fallbacks of lines 659-661
locateColumns(rows) ==
  LET h == headerRowIndex(rows)
      nameIdx == IF h = -1 THEN -1 ELSE lastLabelled(rows[h + 1], NameLabels)
      priceIdx == IF h = -1 THEN -1 ELSE lastLabelled(rows[h + 1], PriceLabels)
      dateIdx == IF h = -1 THEN -1 ELSE lastLabelled(rows[h + 1], DateLabels)
  IN  [headerRowIndex |-> h,
       nameColIndex |-> IF nameIdx = -1 THEN 3 ELSE nameIdx,
       priceColIndex |-> IF priceIdx = -1 THEN 8 ELSE priceIdx,
       dateColIndex |-> IF dateIdx = -1 THEN 0 ELSE dateIdx,
       startDataRow |-> IF h # -1 THEN h + 1 ELSE 1]

(***************************************************************************)
(* processFile, row classification (src/App.tsx 667-728)                   *)
(***************************************************************************)
expenseKeywords ==
  { <<"ar_fa", "ar_alif", "ar_ta", "ar_waw", "ar_ra", "ar_ta_marbuta">>,
    <<"ar_alif", "ar_ya", "ar_jim", "ar_alif", "ar_ra">>,
    <<"ar_ra", "ar_alif", "ar_ta", "ar_ba">>,
    <<"ar_kaf", "ar_heh", "ar_ra", "ar_ba", "ar_alif", "ar_hamza">>,
    <<"ar_alif", "ar_nun", "ar_ta", "ar_ra", "ar_nun", "ar_ta">>,
    <<"ar_sad", "ar_ya", "ar_alif", "ar_nun", "ar_ta_marbuta">>,
    <<"ar_shin", "ar_ra", "ar_alif", "ar_hamza">>,
    <<"ar_sad", "ar_ra", "ar_fa">>,
    <<"e", "x", "p", "e", "n", "s", "e">>,
    <<"b", "i", "l", "l">>,
    <<"r", "e", "n", "t">>,
    <<"s", "a", "l", "a", "r", "y">> }

debtKeywords ==
  { <<"ar_dal", "ar_ya", "ar_nun">>,
    <<"ar_alif", "ar_jim", "ar_lam">>,
    <<"ar_alif_madda", "ar_jim", "ar_lam">>,
    <<"ar_qaf", "ar_ra", "ar_dad">>,
    <<"d", "e", "b", "t">>,
    <<"c", "r", "e", "d", "i", "t">> }

\* the localized fallback name of line 675
DefaultName ==
  <<"ar_mim", "ar_alif", "ar_dal", "ar_ta_marbuta", " ",
    "ar_mim", "ar_sin", "ar_ta", "ar_waw", "ar_ra", "ar_dal", "ar_ta_marbuta">>

\* row.find(c => typeof c === 'string' && c.length > 2 && !c.includes(',')
\*               && !c.match(date pattern)); the empty cell when none
RECURSIVE findCandidate(_)
findCandidate(row) ==
  IF row = << >> THEN Empty
  ELSE LET c == Head(row)
       IN  IF /\ c.t = "str"
              /\ Len(c.s) > 2
              /\ ~includes(c.s, <<",">>)
              /\ ~matchesDatePattern(c.s)
           THEN c
           ELSE findCandidate(Tail(row))

extractName(row, nameColIndex) ==
  IF Truthy(CellAt(row, nameColIndex)) THEN CellToString(CellAt(row, nameColIndex))
  ELSE IF Truthy(findCandidate(row)) THEN findCandidate(row).s
  ELSE DefaultName

extractAmount(row, priceColIndex) ==
  LET rawPrice == CellAt(row, priceColIndex)
  IN  CASE rawPrice.t = "num" -> Num(rawPrice.n)
        [] rawPrice.t = "str" -> parseFloat(stripNonNumeric(rawPrice.s))
        [] OTHER -> Num(0)

\* a date step that never reads the date cell
extractDateMutToday(row, dateColIndex, todayStr) == todayStr

\* lines 692-697
extractDate(row, dateColIndex, todayStr) ==
  LET c == CellAt(row, dateColIndex)
  IN  IF Truthy(c) /\ matchesDatePattern(CellToString(c)) THEN CellToString(c)
      ELSE todayStr

\* !amount
falsyAmount(a) == a.nan \/ a.v = 0

classifyMutSwapped(lowerName) ==
  IF \E k \in debtKeywords : includes(lowerName, k)
  THEN [type |-> "debt", status |-> "pending"]
  ELSE IF \E k \in expenseKeywords : includes(lowerName, k)
  THEN [type |-> "expense", status |-> "completed"]
  ELSE [type |-> "sale", status |-> "completed"]

\* lines 702-712: expense keywords are tested before debt keywords
classify(lowerName) ==
  IF \E k \in expenseKeywords : includes(lowerName, k)
  THEN [type |-> "expense", status |-> "completed"]
  ELSE IF \E k \in debtKeywords : includes(lowerName, k)
  THEN [type |-> "debt", status |-> "pending"]
  ELSE [type |-> "sale", status |-> "completed"]

\* inventory.find(inv => inv.name.toLowerCase() === clientName.toLowerCase())?.id
matchedItemId(inv, clientName) ==
  LET hits == {i \in 1..Len(inv) : toLowerCase(inv[i].name) = toLowerCase(clientName)}
  IN  IF hits = {} THEN ""
      ELSE inv[CHOOSE m \in hits : \A h \in hits : m <= h].id

\* a skip test that keeps NaN amounts (amount === 0 in place of !amount)
rowSkippedMutZeroOnly(row, cols) ==
  row = << >> \/ extractAmount(row, cols.priceColIndex) = Num(0)

\* if (!row || row.length === 0) continue; ... if (!amount) continue;
rowSkipped(row, cols) ==
  row = << >> \/ falsyAmount(extractAmount(row, cols.priceColIndex))

\* the record pushed at lines 716-727, its id still to be generated
rowRecord(row, cols, inv, todayStr) ==
  LET clientName == extractName(row, cols.nameColIndex)
      cls == classify(toLowerCase(clientName))
  IN  [id |-> 0,
       type |-> cls.type,
       client |-> clientName,
       itemId |-> matchedItemId(inv, clientName),
       date |-> extractDate(row, cols.dateColIndex, todayStr),
       amount |-> Abs(extractAmount(row, cols.priceColIndex).v),
       currency |-> "IQD",
       status |-> cls.status,
       method |-> "Import"]

\* the loop of lines 670-728 from row index i (0-based)
RECURSIVE classifyFrom(_, _, _, _, _)
classifyFrom(rows, i, cols, inv, todayStr) ==
  IF i >= Len(rows) THEN << >>
  ELSE IF rowSkipped(rows[i + 1], cols)
       THEN classifyFrom(rows, i + 1, cols, inv, todayStr)
       ELSE <<rowRecord(rows[i + 1], cols, inv, todayStr)>>
            \o classifyFrom(rows, i + 1, cols, inv, todayStr)

\* newTxs as built by worker.onmessage for a successfully decoded grid
classifyRows(rows, inv, todayStr) ==
  classifyFrom(rows, locateColumns(rows).startDataRow, locateColumns(rows), inv, todayStr)

\* id: generateId() for each record pushed; ids[k] is the value drawn for
\* the k-th record
withIds(recs, ids) == [k \in 1..Len(recs) |-> [recs[k] EXCEPT !.id = ids[k]]]

(***************************************************************************)
(* Records, stores and tasks                                               *)
(***************************************************************************)
IdPool == 1..NumIds

Days == 1..MaxDay

\* new Date().toISOString().split('T')[0] on day d of January 2024
DateStr(d) == <<"2", "0", "2", "4", "-", "0", "1", "-", "0", DigitChars[d + 1]>>

getToday == DateStr(today)

NoTx == [id |-> 0, type |-> "", client |-> << >>, itemId |-> "", date |-> << >>,
         amount |-> 0, currency |-> "", status |-> "", method |-> ""]

NoItem == [id |-> "", name |-> << >>, quantity |-> 0]

S_Ali == <<"A", "l", "i">>
S_Bob == <<"B", "o", "b">>
S_Rent == <<"R", "e", "n", "t">>
S_ACME == <<"A", "C", "M", "E">>

Item1 == [id |-> "ITM-1", name |-> S_ACME, quantity |-> InitQty]

ItemIds == {"ITM-1"}

\* storeInfo.currencySymbol of the default profile (line 252)
currencySymbol == "IQD"

\* objectStore.put(item): insert, or replace the record with the same key
put(store, item) == {x \in store : x.id # item.id} \cup {item}

RECURSIVE putAll(_, _)
\* items.forEach(item => store.put(item))
putAll(store, items) ==
  IF items = << >> THEN store ELSE putAll(put(store, Head(items)), Tail(items))

RECURSIVE getAllTx(_)
\* objectStore.getAll(): the records in ascending key order
getAllTx(store) ==
  IF store = {} THEN << >>
  ELSE LET m == CHOOSE x \in store : \A y \in store : x.id <= y.id
       IN  <<m>> \o getAllTx(store \ {m})

\* the inventory store holds at most the single item of ItemIds
getAllInv(store) ==
  IF store = {} THEN << >> ELSE <<CHOOSE x \in store : TRUE>>

\* prev.map(i => i.id === item.id ? item : i)
replaceById(list, item) ==
  [i \in 1..Len(list) |-> IF list[i].id = item.id THEN item ELSE list[i]]

\* inventory.find(i => i.id === itemId), NoItem when absent
findItem(inv, itemId) ==
  LET hits == {i \in 1..Len(inv) : inv[i].id = itemId}
  IN  IF hits = {} THEN NoItem ELSE inv[CHOOSE m \in hits : \A h \in hits : m <= h]

\* A handler that has been invoked and not yet ended is a task: what it is
\* (kind), the await it stands at (pc) and the values its closure holds.
\* tasks is the bag of them; NoTask gives the fields of a task, blank.
NoTask == [kind |-> "", pc |-> "", tx |-> NoTx, item |-> NoItem,
           txs |-> << >>, idx |-> 0, inv |-> << >>]

InFlight == BagToSet(tasks)

invoke(t) == tasks (+) SetToBag({t})

finish(t) == tasks (-) SetToBag({t})

become(t, u) == (tasks (-) SetToBag({t})) (+) SetToBag({u})

CanInvoke == ops < MaxOps /\ BagCardinality(tasks) < MaxTasks

\* the ids held by the in-memory set, the store and the handlers in flight
usedIds ==
  {transactions[k].id : k \in 1..Len(transactions)}
    \cup {t.id : t \in db}
    \cup {t.tx.id : t \in {u \in InFlight : u.kind = "manual"}}
    \cup UNION {{t.txs[k].id : k \in 1..Len(t.txs)} : t \in InFlight}

\* generateId() (185) draws one of 9000 values at random: the draw is an id
\* in use or a new one.  Of the new ones the model draws the least of IdPool
\* only; every collision is kept, the places getAll puts new keys at are not.
drawableIds ==
  LET fresh == IdPool \ usedIds
  IN  usedIds \cup (IF fresh = {} THEN {} ELSE {CHOOSE n \in fresh : \A o \in fresh : n <= o})

(***************************************************************************)
(* Numbers of the derived values                                           *)
(*                                                                         *)
(* The sums and quotients of the memoized statistics are kept as exact     *)
(* fractions n/d in lowest terms; the rounding of the floating-point       *)
(* operations is below the model's resolution.  NaN is a value of its own  *)
(* that every operation hands on and every comparison answers with false.  *)
(***************************************************************************)
\* const EXCHANGE_RATE = 1520
EXCHANGE_RATE == 1520

RECURSIVE GCD(_, _)
GCD(a, b) == IF b = 0 THEN a ELSE GCD(b, a % b)

QNaN == [nan |-> TRUE, n |-> 0, d |-> 1]

\* the fraction n/d, d > 0, in lowest terms
Q(n, d) ==
  LET g == GCD(Abs(n), d)
  IN  [nan |-> FALSE, n |-> n \div g, d |-> d \div g]

QInt(i) == Q(i, 1)

QAdd(a, b) == IF a.nan \/ b.nan THEN QNaN ELSE Q(a.n * b.d + b.n * a.d, a.d * b.d)

QSub(a, b) == IF a.nan \/ b.nan THEN QNaN ELSE Q(a.n * b.d - b.n * a.d, a.d * b.d)

QMul(a, b) == IF a.nan \/ b.nan THEN QNaN ELSE Q(a.n * b.n, a.d * b.d)

\* a / b for b above 0; 0 / 0 is NaN
QDiv(a, b) ==
  IF a.nan \/ b.nan \/ b.n = 0 THEN QNaN
  ELSE IF b.n > 0 THEN Q(a.n * b.d, a.d * b.n)
  ELSE Q(0 - a.n * b.d, a.d * (0 - b.n))

\* a > b and a <= b: false when either side is NaN
QGt(a, b) == ~a.nan /\ ~b.nan /\ a.n * b.d > b.n * a.d

QLe(a, b) == ~a.nan /\ ~b.nan /\ a.n * b.d <= b.n * a.d

\* the amount field of a record holds hundredths; NaN, which the handlers
\* store as it comes (no handler stores an amount below 0), is held as -1
NaNAmount == 0 - 1

\* t.amount as a number
amountOf(t) == IF t.amount = NaNAmount THEN QNaN ELSE Q(t.amount, Scale)

\* t.amount.toString()
amountToString(t) ==
  IF t.amount = NaNAmount THEN <<"N", "a", "N">> ELSE NumToStr(t.amount)

\* t.currency === 'IQD' ? t.amount / EXCHANGE_RATE : t.amount
normalized(t) ==
  IF t.currency = "IQD" THEN QDiv(amountOf(t), QInt(EXCHANGE_RATE)) ELSE amountOf(t)

\* s has the form YYYY-MM-DD with a month from 01 to 12 and a day from 01 to 28
isCalendarDay(s) ==
  /\ Len(s) = 10
  /\ \A j \in {1, 2, 3, 4, 6, 7, 9, 10} : s[j] \in Digits
  /\ s[5] = "-"
  /\ s[8] = "-"
  /\ DigitsValue(SubSeq(s, 6, 7)) \in 1..12
  /\ DigitsValue(SubSeq(s, 9, 10)) \in 1..28

\* new Date(s).getTime() in days, for the date strings of the model: a
\* string YYYY-MM-DD that names a calendar day has a time that grows with
\* the calendar; the empty string and a string with month 13 are Invalid Date (days
\* 29 to 31, which exist in some months only, are not used)
getTime(s) ==
  IF isCalendarDay(s)
  THEN Num((DigitsValue(SubSeq(s, 1, 4)) * 12 + DigitsValue(SubSeq(s, 6, 7))) * 31
           + DigitsValue(SubSeq(s, 9, 10)))
  ELSE NaN

(***************************************************************************)
(* Memoized values (src/App.tsx 192-213, 303-490)                          *)
(***************************************************************************)
\* the filter of filteredTransactions (309-321), lowerSearch being the search
\* text of the active tab in lower case; records carry no rawText.
\* The sort that follows (323-333) changes the order only, which none of the
\* sums below depends on; the working set is kept in the order of the list.
matchesFilter(t, activeTab, lowerSearch, historyFilterType) ==
  /\ \/ includes(toLowerCase(t.client), lowerSearch)
     \/ includes(amountToString(t), lowerSearch)
  /\ CASE activeTab = "debts" -> t.type = "debt"
       [] activeTab = "transactions" ->
            IF historyFilterType = "all" THEN TRUE
            ELSE IF historyFilterType = "sale" THEN t.type \in {"sale", "cash"}
            ELSE t.type \in {"expense", "refund"}
       [] OTHER -> TRUE

filteredTransactions(txs, s) ==
  SelectSeq(txs, LAMBDA t : matchesFilter(t, s.activeTab, toLowerCase(s.search),
                                          s.historyFilterType))

\* a bucket that takes sales of any status
dashboardBucketMutAnyStatus(t) ==
  IF t.type \in {"sale", "cash"} THEN "sales"
  ELSE IF t.type = "expense" THEN "expenses"
  ELSE IF t.type = "debt" /\ t.status # "completed" THEN "debt"
  ELSE "none"

\* the branch of 345-353 that a transaction takes
dashboardBucket(t) ==
  IF t.type \in {"sale", "cash"} /\ t.status = "completed" THEN "sales"
  ELSE IF t.type = "expense" THEN "expenses"
  ELSE IF t.type = "debt" /\ t.status # "completed" THEN "debt"
  ELSE "none"

\* the three accumulators of dashboardStats after the forEach of 343-354
RECURSIVE dashboardTotals(_, _)
dashboardTotals(ft, acc) ==
  IF ft = << >> THEN acc
  ELSE LET t == Head(ft)
           val == normalized(t)
           b == dashboardBucket(t)
       IN  dashboardTotals(Tail(ft),
             IF b = "sales" THEN [acc EXCEPT !.totalSalesUSD = QAdd(@, val)]
             ELSE IF b = "expenses" THEN [acc EXCEPT !.totalExpensesUSD = QAdd(@, val)]
             ELSE IF b = "debt" THEN [acc EXCEPT !.totalDebt = QAdd(@, val)]
             ELSE acc)

\* the record returned at 356-364, without weeklyData
dashboardStats(ft) ==
  LET acc == dashboardTotals(ft, [totalSalesUSD |-> QInt(0), totalExpensesUSD |-> QInt(0),
                                  totalDebt |-> QInt(0)])
  IN  [totalSalesUSD |-> acc.totalSalesUSD,
       totalSalesIQD |-> QMul(acc.totalSalesUSD, QInt(EXCHANGE_RATE)),
       netProfit |-> QSub(acc.totalSalesUSD, acc.totalExpensesUSD),
       totalDebt |-> QMul(acc.totalDebt, QInt(EXCHANGE_RATE)),
       totalExpenses |-> acc.totalExpensesUSD,
       count |-> Len(ft)]

\* a Map as a function on its keys
mapGet(m, k, default) == IF k \in DOMAIN m THEN m[k] ELSE default

mapSet(m, k, v) == [x \in (DOMAIN m) \cup {k} |-> IF x = k THEN v ELSE m[x]]

\* the filter of reportStats (372-379)
inReport(t, r) ==
  LET tDate == getTime(t.date)
      start == getTime(r.reportStartDate)
      end == getTime(r.reportEndDate)
      lowerSearch == toLowerCase(r.reportSearchTerm)
  IN  /\ ~tDate.nan /\ ~start.nan /\ ~end.nan
      /\ tDate.v >= start.v /\ tDate.v <= end.v
      /\ \/ lowerSearch = << >>
         \/ includes(toLowerCase(t.client), lowerSearch)
         \/ includes(amountToString(t), lowerSearch)

\* a bucket that takes a pending debt for revenue
reportBucketMutPendingIsRevenue(t) ==
  IF t.type = "sale" /\ t.status = "completed" THEN "sale"
  ELSE IF t.type = "expense" THEN "expense"
  ELSE IF t.type = "debt" /\ t.status = "pending" THEN "collected"
  ELSE IF t.type = "debt" /\ t.status = "completed" THEN "collected"
  ELSE "none"

\* the branch of 395-417 that a transaction takes
reportBucket(t) ==
  IF t.type = "sale" /\ t.status = "completed" THEN "sale"
  ELSE IF t.type = "expense" THEN "expense"
  ELSE IF t.type = "debt" /\ t.status = "pending" THEN "pending"
  ELSE IF t.type = "debt" /\ t.status = "completed" THEN "collected"
  ELSE "none"

NoDay == [revenue |-> QInt(0), expenses |-> QInt(0)]

\* the accumulators of reportStats after the forEach of 388-418
RECURSIVE reportTotals(_, _)
reportTotals(filtered, acc) ==
  IF filtered = << >> THEN acc
  ELSE LET t == Head(filtered)
           val == normalized(t)
           b == reportBucket(t)
           dayEntry == mapGet(acc.dailyMap, t.date, NoDay)
       IN  reportTotals(Tail(filtered),
             CASE b = "sale" ->
                    [acc EXCEPT !.revenue = QAdd(@, val),
                                !.dailyMap = mapSet(@, t.date,
                                   [dayEntry EXCEPT !.revenue = QAdd(@, val)])]
               [] b = "expense" ->
                    [acc EXCEPT !.expenses = QAdd(@, val),
                                !.dailyMap = mapSet(@, t.date,
                                   [dayEntry EXCEPT !.expenses = QAdd(@, val)])]
               [] b = "pending" ->
                    [acc EXCEPT !.pendingDebt = QAdd(@, val),
                                !.debtorMap = mapSet(@, t.client,
                                   QAdd(mapGet(@, t.client, QInt(0)), val)),
                                !.dailyMap = mapSet(@, t.date, dayEntry)]
               [] b = "collected" ->
                    [acc EXCEPT !.collectedDebt = QAdd(@, val),
                                !.revenue = QAdd(@, val),
                                !.dailyMap = mapSet(@, t.date,
                                   [dayEntry EXCEPT !.revenue = QAdd(@, val)])]
               [] OTHER -> [acc EXCEPT !.dailyMap = mapSet(@, t.date, dayEntry)])

\* line 456
collectionRate(collectedDebt, pendingDebt) ==
  IF QGt(QAdd(collectedDebt, pendingDebt), QInt(0))
  THEN QMul(QDiv(collectedDebt, QAdd(collectedDebt, pendingDebt)), QInt(100))
  ELSE QInt(0)

\* the totals, the rate and the two maps of the record returned at 452-467
reportStats(txs, r) ==
  LET filtered == SelectSeq(txs, LAMBDA t : inReport(t, r))
      acc == reportTotals(filtered,
               [revenue |-> QInt(0), expenses |-> QInt(0), pendingDebt |-> QInt(0),
                collectedDebt |-> QInt(0), dailyMap |-> << >>, debtorMap |-> << >>])
  IN  [totalRevenue |-> acc.revenue,
       totalExpenses |-> acc.expenses,
       netProfit |-> QSub(acc.revenue, acc.expenses),
       collectionRate |-> collectionRate(acc.collectedDebt, acc.pendingDebt),
       pendingDebt |-> acc.pendingDebt,
       dailyMap |-> acc.dailyMap,
       debtorMap |-> acc.debtorMap]

\* index of the summary of client c in the list grouped, 0 when there is none
groupIndex(grouped, c) ==
  IF \E i \in 1..Len(grouped) : grouped[i].name = c
  THEN CHOOSE i \in 1..Len(grouped) : grouped[i].name = c
  ELSE 0

\* new Date(a) > new Date(b)
laterDate(a, b) ==
  ~getTime(a).nan /\ ~getTime(b).nan /\ getTime(a).v > getTime(b).v

\* the Map of debtList after the forEach of 481-488, as the list of its
\* entries in insertion order
RECURSIVE debtGroups(_, _)
debtGroups(pending, grouped) ==
  IF pending = << >> THEN grouped
  ELSE LET t == Head(pending)
           i == groupIndex(grouped, t.client)
           existing == IF i = 0
                       THEN [name |-> t.client, total |-> QInt(0), lastDate |-> t.date,
                             count |-> 0]
                       ELSE grouped[i]
           updated == [existing EXCEPT
                         !.total = QAdd(@, amountOf(t)),
                         !.count = @ + 1,
                         !.lastDate = IF laterDate(t.date, existing.lastDate)
                                      THEN t.date ELSE @]
       IN  debtGroups(Tail(pending),
             IF i = 0 THEN Append(grouped, updated)
             ELSE [grouped EXCEPT ![i] = updated])

\* lines 479-490, without the phone number
debtList(txs) ==
  debtGroups(SelectSeq(txs, LAMBDA t : t.type = "debt" /\ t.status = "pending"), << >>)

\* new Date(s).getDay() for the date strings of the model, which name days
\* of January 2024 (the 1st is a Monday, the 7th a Sunday).  A string
\* YYYY-MM-DD is read as midnight UTC and getDay answers in the host's time
\* zone: the same day at and east of Greenwich, the day before west of it.
getDay(s, zone) ==
  IF ~isCalendarDay(s) THEN NaN
  ELSE Num((DigitsValue(SubSeq(s, 9, 10)) + (IF zone = "west" THEN 6 ELSE 0)) % 7)

\* dailyTotals after the forEach of 343-354: slot k + 1 is dailyTotals[k]
RECURSIVE dailyTotals(_, _, _)
dailyTotals(ft, acc, zone) ==
  IF ft = << >> THEN acc
  ELSE LET t == Head(ft)
           d == getDay(t.date, zone)
       IN  dailyTotals(Tail(ft),
             IF dashboardBucket(t) = "sales" /\ ~d.nan
             THEN [acc EXCEPT ![d.v + 1] = QAdd(@, normalized(t))]
             ELSE acc,
             zone)

\* weeklyData of the record returned at 356-364
weeklyData(ft, zone) ==
  LET totals == dailyTotals(ft, [k \in 1..7 |-> QInt(0)], zone)
  IN  [k \in 1..7 |-> [dayIndex |-> k - 1, total |-> totals[k]]]

\* const WEEK_DAYS_FULL (94)
WEEK_DAYS_FULL ==
  <<"Sunday", "Monday", "Tuesday", "Wednesday", "Thursday", "Friday", "Saturday">>

\* map.set(name, entry) on a Map held as the list of its entries in
\* insertion order
mapPut(entries, entry) ==
  IF groupIndex(entries, entry.name) = 0 THEN Append(entries, entry)
  ELSE [entries EXCEPT ![groupIndex(entries, entry.name)] = entry]

\* productMap, debtorMap and dayOfWeekMap after the forEach of 388-418
RECURSIVE reportMaps(_, _, _)
reportMaps(filtered, acc, zone) ==
  IF filtered = << >> THEN acc
  ELSE LET t == Head(filtered)
           val == normalized(t)
           b == reportBucket(t)
           dayIndex == getDay(t.date, zone)
           p == groupIndex(acc.productMap, t.client)
           cur == IF p = 0 THEN [name |-> t.client, amount |-> QInt(0), count |-> 0]
                  ELSE acc.productMap[p]
           q == groupIndex(acc.debtorMap, t.client)
           \* debtorMap.get(t.client) || 0: a sum that is NaN counts as 0
           owed == IF q = 0 THEN QInt(0)
                   ELSE IF acc.debtorMap[q].amount.nan THEN QInt(0)
                   ELSE acc.debtorMap[q].amount
       IN  reportMaps(Tail(filtered),
             CASE b = "sale" ->
                    [acc EXCEPT
                       !.productMap = mapPut(@, [name |-> t.client,
                                                amount |-> QAdd(cur.amount, val),
                                                count |-> cur.count + 1]),
                       !.dayOfWeekMap = IF dayIndex.nan THEN @
                                        ELSE [@ EXCEPT ![dayIndex.v + 1] = QAdd(@, val)]]
               [] b = "pending" ->
                    [acc EXCEPT
                       !.debtorMap = mapPut(@, [name |-> t.client,
                                               amount |-> QAdd(owed, val)])]
               [] OTHER -> acc,
             zone)

\* one step of Array.prototype.sort with (a, b) => b.amount - a.amount: x
\* goes before the entries at the end of the sorted part that the comparator
\* puts it before, which is when x.amount - entry.amount is above 0; a
\* difference that is NaN moves nothing
RECURSIVE insertByAmount(_, _)
insertByAmount(sorted, x) ==
  IF sorted = << >> THEN <<x>>
  ELSE LET last == sorted[Len(sorted)]
       IN  IF QGt(QSub(x.amount, last.amount), QInt(0))
           THEN Append(insertByAmount(SubSeq(sorted, 1, Len(sorted) - 1), x), last)
           ELSE Append(sorted, x)

\* .sort((a, b) => b.amount - a.amount) (422, 443): the sort is stable, and
\* with amounts that are numbers every stable sort returns this list.  With a
\* NaN among the amounts the comparator is no order and the result is the
\* engine's; the entries are then put in one by one from the left, as the
\* engines do for a list this short.
RECURSIVE sortByAmount(_)
sortByAmount(entries) ==
  IF entries = << >> THEN << >>
  ELSE insertByAmount(sortByAmount(SubSeq(entries, 1, Len(entries) - 1)),
                      entries[Len(entries)])

\* .slice(0, 5)
topFive(entries) == SubSeq(entries, 1, IF Len(entries) < 5 THEN Len(entries) ELSE 5)

\* a scan that lets a later day take over an equal total
RECURSIVE busiestFromMutLastTie(_, _, _, _)
busiestFromMutLastTie(dayOfWeekMap, i, maxDayVal, maxDayName) ==
  IF i > 7 THEN maxDayName
  ELSE IF QGt(dayOfWeekMap[i], maxDayVal) \/ dayOfWeekMap[i] = maxDayVal
       THEN busiestFromMutLastTie(dayOfWeekMap, i + 1, dayOfWeekMap[i], WEEK_DAYS_FULL[i])
       ELSE busiestFromMutLastTie(dayOfWeekMap, i + 1, maxDayVal, maxDayName)

RECURSIVE busiestFrom(_, _, _, _)
\* the forEach of line 450 from slot i on
busiestFrom(dayOfWeekMap, i, maxDayVal, maxDayName) ==
  IF i > 7 THEN maxDayName
  ELSE IF QGt(dayOfWeekMap[i], maxDayVal)
       THEN busiestFrom(dayOfWeekMap, i + 1, dayOfWeekMap[i], WEEK_DAYS_FULL[i])
       ELSE busiestFrom(dayOfWeekMap, i + 1, maxDayVal, maxDayName)

\* topProducts, topDebtors, the histogram and busiestDay of the record
\* returned at 452-467
reportRanks(txs, r, zone) ==
  LET filtered == SelectSeq(txs, LAMBDA t : inReport(t, r))
      acc == reportMaps(filtered,
               [productMap |-> << >>, debtorMap |-> << >>,
                dayOfWeekMap |-> [k \in 1..7 |-> QInt(0)]], zone)
  IN  [topProducts |-> topFive(sortByAmount(acc.productMap)),
       topDebtors |-> topFive(sortByAmount(acc.debtorMap)),
       dayOfWeekMap |-> acc.dayOfWeekMap,
       busiestDay |-> busiestFrom(acc.dayOfWeekMap, 1, QInt(0 - 1), "N/A")]

\* Math.round(q): the integer nearest to q, a half going up
roundQ(q) == IF q.nan THEN QNaN ELSE QInt((2 * q.n + q.d) \div (2 * q.d))

RECURSIVE sumField(_, _)
\* window.reduce((sum, item) => sum + item[field], 0)
sumField(window, field) ==
  IF window = << >> THEN QInt(0)
  ELSE QAdd(sumField(SubSeq(window, 1, Len(window) - 1), field), window[Len(window)][field])

\* a window size rounded down
windowSizeMutFloor(length, limit) == length \div limit

\* Math.ceil(data.length / limit)
windowSize(length, limit) == (length + limit - 1) \div limit

\* a point labelled with the last date of its window
windowPointMutLastDate(window) ==
  [date |-> window[Len(window)].date,
   revenue |-> roundQ(QDiv(sumField(window, "revenue"), QInt(Len(window)))),
   expenses |-> roundQ(QDiv(sumField(window, "expenses"), QInt(Len(window)))),
   fullDate |-> window[Len(window)].fullDate]

\* the point pushed for a window (202-210)
windowPoint(window) ==
  [date |-> window[1].date,
   revenue |-> roundQ(QDiv(sumField(window, "revenue"), QInt(Len(window)))),
   expenses |-> roundQ(QDiv(sumField(window, "expenses"), QInt(Len(window)))),
   fullDate |-> window[1].fullDate]

\* the loop of 198-211 from index i (0-based)
RECURSIVE chartFrom(_, _, _)
chartFrom(data, i, w) ==
  IF i >= Len(data) THEN << >>
  ELSE <<windowPoint(SubSeq(data, i + 1, IF i + w < Len(data) THEN i + w ELSE Len(data)))>>
         \o chartFrom(data, i + w, w)

\* lines 192-213
optimizeChartData(data, limit) ==
  IF Len(data) <= limit THEN data
  ELSE chartFrom(data, 0, windowSize(Len(data), limit))

NoView == [kind |-> "none"]

(***************************************************************************)
(* Manual entry                                                            *)
(*                                                                         *)
(* The modals (manualModalOpen, deleteModal) are overlays: opening and     *)
(* closing them changes no data, and none of the handlers tests them.      *)
(* They are left out, and a handler may be invoked whenever its own code   *)
(* lets it run; the save button of the manual-entry modal stays enabled    *)
(* while an earlier submission is still awaited (1478).                    *)
(***************************************************************************)
ManualForms ==
  { [type |-> "debt", client |-> S_Ali, description |-> << >>, amount |-> <<"2", "0">>, itemId |-> "ITM-1"],
    [type |-> "expense", client |-> << >>, description |-> S_Rent, amount |-> <<"1", "0">>, itemId |-> "ITM-1"],
    [type |-> "sale", client |-> S_Bob, description |-> << >>, amount |-> << >>, itemId |-> "ITM-1"] }

\* the transaction built at lines 544-551
manualTx(form, id) ==
  [id |-> id,
   type |-> IF form.type = "expense" THEN "expense"
            ELSE IF form.type = "debt" THEN "debt" ELSE "sale",
   client |-> IF form.type = "expense" THEN form.description ELSE form.client,
   itemId |-> form.itemId,
   date |-> getToday,
   amount |-> parseFloat(form.amount).v,
   currency |-> IF currencySymbol = "$" THEN "USD" ELSE "IQD",
   status |-> IF form.type = "debt" THEN "pending" ELSE "completed",
   method |-> "Manual"]

\* if (!val || val <= 0) return;
manualRejected(form) ==
  LET val == parseFloat(form.amount) IN val.nan \/ val.v <= 0

\* the item to write back, NoItem when the stock is not touched (553-556)
manualUpdatedItem(form, inv) ==
  IF form.type \in {"sale", "debt"} /\ form.itemId # "" /\ findItem(inv, form.itemId) # NoItem
  THEN [findItem(inv, form.itemId) EXCEPT !.quantity = @ - 1]
  ELSE NoItem

\* handleManualTransaction up to its first await
handleManualTransaction(form, id) ==
  /\ CanInvoke
  /\ id \in drawableIds
  /\ IF manualRejected(form)
     THEN UNCHANGED <<tasks, ops>>
     ELSE /\ ops' = ops + 1
          /\ tasks' = invoke(
               [NoTask EXCEPT !.kind = "manual",
                            !.pc = IF manualUpdatedItem(form, inventory) # NoItem
                                   THEN "putInv" ELSE "putTx",
                            !.tx = manualTx(form, id),
                            !.item = manualUpdatedItem(form, inventory)])
  /\ UNCHANGED <<transactions, inventory, db, invDb, isUploading, error, today,
                 lastImport, manualSold, grid, batch, view>>

\* await dbOp(INVENTORY_STORE, 'put', updatedItem); setInventory(...) (557-558)
ManualPutInv ==
  \E t \in InFlight :
    /\ t.kind = "manual" /\ t.pc = "putInv"
    /\ invDb' = put(invDb, t.item)
    /\ inventory' = replaceById(inventory, t.item)
    /\ tasks' = become(t, [t EXCEPT !.pc = "putTx"])
    /\ UNCHANGED <<transactions, db, isUploading, error, today, ops, lastImport,
                   manualSold, grid, batch, view>>

\* await dbOp(STORE_NAME, 'put', newTx); setTransactions(...); ... (562-567)
ManualPutTx ==
  \E t \in InFlight :
    /\ t.kind = "manual" /\ t.pc = "putTx"
    /\ db' = put(db, t.tx)
    /\ transactions' = <<t.tx>> \o transactions
    /\ manualSold' = IF t.item # NoItem
                     THEN [manualSold EXCEPT ![t.item.id] = @ + 1]
                     ELSE manualSold
    /\ tasks' = finish(t)
    /\ UNCHANGED <<inventory, invDb, isUploading, error, today, ops, lastImport,
                   grid, batch, view>>

(***************************************************************************)
(* Debt settlement                                                         *)
(***************************************************************************)
Clients == {S_Ali, S_Bob, S_Rent, S_ACME}

\* variant: the settled debts keep the date they were made on
settleUpdatedTxsMutKeepDate(txs, clientName, todayStr) ==
  LET pend == SelectSeq(txs, LAMBDA t : t.client = clientName /\ t.type = "debt"
                                        /\ t.status = "pending")
  IN  [k \in 1..Len(pend) |-> [pend[k] EXCEPT !.status = "completed"]]

\* transactions.filter(...).map(t => ({...t, status: 'completed', date: getToday()}))
settleUpdatedTxs(txs, clientName, todayStr) ==
  LET pend == SelectSeq(txs, LAMBDA t : t.client = clientName /\ t.type = "debt"
                                        /\ t.status = "pending")
  IN  [k \in 1..Len(pend) |-> [pend[k] EXCEPT !.status = "completed", !.date = todayStr]]

\* updatedTxs.find(u => u.id === t.id) || t
settleReplace(updated, t) ==
  LET hits == {k \in 1..Len(updated) : updated[k].id = t.id}
  IN  IF hits = {} THEN t ELSE updated[CHOOSE m \in hits : \A h \in hits : m <= h]

\* setTransactions(prev => prev.map(...)) of lines 616-619
settleApply(prev, updated) == [k \in 1..Len(prev) |-> settleReplace(updated, prev[k])]

\* the clients the debts page shows a settle button for: debtList (479-490)
\* groups the pending debts by client
debtClients(txs) ==
  {txs[k].client : k \in {j \in 1..Len(txs) : txs[j].type = "debt" /\ txs[j].status = "pending"}}

\* handleSettleClientDebt, confirmed, up to its first await; the button is
\* rendered per entry of debtList (1272-1290)
handleSettleClientDebt(clientName) ==
  /\ clientName \in debtClients(transactions)
  /\ CanInvoke
  /\ ops' = ops + 1
  /\ tasks' = invoke(
       [NoTask EXCEPT !.kind = "settle", !.pc = "put",
                    !.txs = settleUpdatedTxs(transactions, clientName, getToday),
                    !.idx = 1])
  /\ UNCHANGED <<transactions, inventory, db, invDb, isUploading, error, today,
                 lastImport, manualSold, grid, batch, view>>

\* one await dbOp(STORE_NAME, 'put', t) of the loop; after the last one the
\* state update of lines 616-619
SettlePut ==
  \E t \in InFlight :
    /\ t.kind = "settle" /\ t.pc = "put"
    /\ db' = put(db, t.txs[t.idx])
    /\ IF t.idx < Len(t.txs)
       THEN /\ tasks' = become(t, [t EXCEPT !.idx = @ + 1])
            /\ UNCHANGED transactions
       ELSE /\ transactions' = settleApply(transactions, t.txs)
            /\ tasks' = finish(t)
    /\ UNCHANGED <<inventory, invDb, isUploading, error, today, ops, lastImport,
                   manualSold, grid, batch, view>>

(***************************************************************************)
(* Clear all                                                               *)
(***************************************************************************)
\* handleDeleteConfirm with type 'all' (the only type the page ever opens the
\* delete modal with, line 1302), up to await clearStore()
handleDeleteConfirm ==
  /\ CanInvoke
  /\ ops' = ops + 1
  /\ tasks' = invoke([NoTask EXCEPT !.kind = "delete", !.pc = "clear"])
  /\ UNCHANGED <<transactions, inventory, db, invDb, isUploading, error, today,
                 lastImport, manualSold, grid, batch, view>>

\* await clearStore(); setTransactions([]); setInventory([]) (785)
DeleteClear ==
  \E t \in InFlight :
    /\ t.kind = "delete" /\ t.pc = "clear"
    /\ db' = {}
    /\ invDb' = {}
    /\ transactions' = << >>
    /\ inventory' = << >>
    /\ tasks' = finish(t)
    /\ UNCHANGED <<isUploading, error, today, ops, lastImport, manualSold, grid, batch, view>>

(***************************************************************************)
(* Import                                                                  *)
(***************************************************************************)
C_date1 == StrCell(<<"2", "0", "2", "4", "-", "0", "1", "-", "0", "1">>)
C_date2 == StrCell(<<"2", "0", "2", "4", "-", "0", "1", "-", "0", "2">>)
\* a date followed by a time of day, and a string of the date's shape that
\* names no calendar day
C_datetime == StrCell(<<"2", "0", "2", "4", "-", "0", "1", "-", "0", "2", " ", "0", "9", ":", "0", "0">>)
C_month13 == StrCell(<<"2", "0", "2", "4", "-", "1", "3", "-", "4", "5">>)
C_Acme == StrCell(<<"A", "c", "m", "e">>)
C_invoice == StrCell(<<"ar_fa", "ar_alif", "ar_ta", "ar_waw", "ar_ra", "ar_ta_marbuta", " ",
                       "ar_kaf", "ar_heh", "ar_ra", "ar_ba", "ar_alif", "ar_hamza">>)
C_1200 == StrCell(<<"1", "2", "0", "0">>)
C_5000 == StrCell(<<"5", "0", "0", "0">>)

Header3 == <<StrCell(S_date), StrCell(S_name), StrCell(S_price)>>

\* the grids a decoded upload may carry in the handler model
UploadGrids ==
  { <<Header3, <<C_date1, C_Acme, NumCell(0)>> >>,
    <<Header3, <<C_date2, C_Acme, C_1200>> >> }

\* processFile up to the hand-over to the worker (626-627, 750-752)
processFile ==
  /\ CanInvoke
  /\ ops' = ops + 1
  /\ isUploading' = TRUE
  /\ tasks' = invoke(
       [NoTask EXCEPT !.kind = "import", !.pc = "worker", !.inv = inventory])
  /\ UNCHANGED <<transactions, inventory, db, invDb, error, today, lastImport,
                 manualSold, grid, batch, view>>

\* the change event of the hidden file input (862).  Its file chooser is
\* opened by the zone's click handler alone, which tests isUploading (878,
\* 780); the chooser is modal, so that the choice follows the click with
\* nothing in between.
FileInputChange == ~isUploading /\ processFile

\* a drop on a zone that takes pointer events during an import
handleDropMutNoGuard == processFile

\* handleDrop (766-772) has no test of its own: the zone it is bound to
\* (881) takes no pointer event, and so no drop, while isUploading (885)
handleDrop == ~isUploading /\ processFile

\* variant: a grid without usable rows is reported as an error
WorkerSuccessMutEmptyIsError ==
  \E t \in InFlight, g \in UploadGrids :
    /\ t.kind = "import" /\ t.pc = "worker"
    /\ \E recs \in {classifyRows(g, t.inv, getToday)} :
         \E ids \in [1..Len(recs) -> drawableIds] :
           IF recs # << >>
           THEN /\ tasks' = become(t, [t EXCEPT !.pc = "bulk", !.txs = withIds(recs, ids)])
                /\ lastImport' = "batch"
                /\ UNCHANGED <<isUploading, error>>
           ELSE /\ tasks' = finish(t)
                /\ isUploading' = FALSE
                /\ lastImport' = "empty"
                /\ error' = "process"
    /\ UNCHANGED <<transactions, inventory, db, invDb, today, ops, manualSold,
                   grid, batch, view>>

\* worker.onmessage with e.data.success: build newTxs, every id drawn by
\* generateId(); an empty batch goes straight to the finally block
\* (730, 735-739)
WorkerSuccess ==
  \E t \in InFlight, g \in UploadGrids :
    /\ t.kind = "import" /\ t.pc = "worker"
    /\ \E recs \in {classifyRows(g, t.inv, getToday)} :
         \E ids \in [1..Len(recs) -> drawableIds] :
           IF recs # << >>
           THEN /\ tasks' = become(t, [t EXCEPT !.pc = "bulk", !.txs = withIds(recs, ids)])
                /\ lastImport' = "batch"
                /\ UNCHANGED isUploading
           ELSE /\ tasks' = finish(t)
                /\ isUploading' = FALSE
                /\ lastImport' = "empty"
    /\ UNCHANGED <<transactions, inventory, db, invDb, error, today, ops, manualSold,
                   grid, batch, view>>

\* variant: the failure branch stores a placeholder record for the upload
WorkerFailureMutPlaceholder ==
  \E t \in InFlight :
    /\ t.kind = "import" /\ t.pc = "worker"
    /\ tasks' = finish(t)
    /\ isUploading' = FALSE
    /\ lastImport' = "failure"
    /\ db' = put(db, [NoTx EXCEPT !.id = 1, !.method = "Import"])
    /\ UNCHANGED <<transactions, inventory, invDb, error, today, ops, manualSold,
                   grid, batch, view>>

\* worker.onmessage with e.data.success false: only the finally block runs
WorkerFailure ==
  \E t \in InFlight :
    /\ t.kind = "import" /\ t.pc = "worker"
    /\ tasks' = finish(t)
    /\ isUploading' = FALSE
    /\ lastImport' = "failure"
    /\ UNCHANGED <<transactions, inventory, db, invDb, error, today, ops, manualSold,
                   grid, batch, view>>

\* worker.onerror (742-748)
WorkerError ==
  \E t \in InFlight :
    /\ t.kind = "import" /\ t.pc = "worker"
    /\ error' = "worker"
    /\ tasks' = finish(t)
    /\ isUploading' = FALSE
    /\ lastImport' = "error"
    /\ UNCHANGED <<transactions, inventory, db, invDb, today, ops, manualSold,
                   grid, batch, view>>

\* bulkAddTransactions (149-158)
bulkAddTransactions(store, items) == putAll(store, items)

\* await bulkAddTransactions(newTxs); loadData(); setSuccess(true); finally
\* (730, 735-739). loadData is not awaited: it goes on as a task of its own.
ImportBulk ==
  \E t \in InFlight :
    /\ t.kind = "import" /\ t.pc = "bulk"
    /\ db' = bulkAddTransactions(db, t.txs)
    /\ isUploading' = FALSE
    /\ tasks' = become(t, [NoTask EXCEPT !.kind = "load", !.pc = "getTxs"])
    /\ lastImport' = "done"
    /\ UNCHANGED <<transactions, inventory, invDb, error, today, ops, manualSold,
                   grid, batch, view>>

\* loadData: const txs = await dbOp(STORE_NAME, 'getAll') (290)
LoadGetTxs ==
  \E t \in InFlight :
    /\ t.kind = "load" /\ t.pc = "getTxs"
    /\ tasks' = become(t, [t EXCEPT !.pc = "getInv", !.txs = getAllTx(db)])
    /\ UNCHANGED <<transactions, inventory, db, invDb, isUploading, error, today, ops,
                   lastImport, manualSold, grid, batch, view>>

\* loadData: const inv = await dbOp(INVENTORY_STORE, 'getAll');
\* setTransactions(txs); setInventory(inv) (291-293)
LoadGetInv ==
  \E t \in InFlight :
    /\ t.kind = "load" /\ t.pc = "getInv"
    /\ transactions' = t.txs
    /\ inventory' = getAllInv(invDb)
    /\ tasks' = finish(t)
    /\ UNCHANGED <<db, invDb, isUploading, error, today, ops, lastImport, manualSold,
                   grid, batch, view>>

(***************************************************************************)
(* Timer and clock                                                         *)
(***************************************************************************)
\* variant: the timeout's callback resets the success flag alone
ClearNoticeMutKeepsError ==
  /\ error # ""
  /\ UNCHANGED vars

\* the 3 s timeout of the success/error effect (301)
ClearNotice ==
  /\ error # ""
  /\ error' = ""
  /\ UNCHANGED <<transactions, inventory, db, invDb, isUploading, today, tasks, ops,
                 lastImport, manualSold, grid, batch, view>>

\* midnight (UTC) passes
Tick ==
  /\ today < MaxDay
  /\ today' = today + 1
  /\ UNCHANGED <<transactions, inventory, db, invDb, isUploading, error, tasks, ops,
                 lastImport, manualSold, grid, batch, view>>

(***************************************************************************)
(* The application                                                         *)
(***************************************************************************)
\* the state once the first loadData has run on a store holding one item
Init ==
  /\ transactions = << >>
  /\ inventory = <<Item1>>
  /\ db = {}
  /\ invDb = {Item1}
  /\ isUploading = FALSE
  /\ error = ""
  /\ today = 1
  /\ tasks = EmptyBag
  /\ ops = 0
  /\ lastImport = "none"
  /\ manualSold = [x \in ItemIds |-> 0]
  /\ grid = << >>
  /\ batch = << >>
  /\ view = NoView

Next ==
  \/ \E form \in ManualForms, id \in IdPool : handleManualTransaction(form, id)
  \/ ManualPutInv
  \/ ManualPutTx
  \/ \E c \in Clients : handleSettleClientDebt(c)
  \/ SettlePut
  \/ handleDeleteConfirm
  \/ DeleteClear
  \/ FileInputChange
  \/ handleDrop
  \/ WorkerSuccess
  \/ WorkerFailure
  \/ WorkerError
  \/ ImportBulk
  \/ LoadGetTxs
  \/ LoadGetInv
  \/ ClearNotice
  \/ Tick

Spec == Init /\ [][Next]_vars

(***************************************************************************)
(* The classifier on its own: a grid is drawn, worker.onmessage's loop     *)
(* builds newTxs from it.                                                  *)
(***************************************************************************)
NameCells ==
  { C_Acme,
    C_invoice,
    StrCell(<<"C", "r", "e", "d", "i", "t", " ", "b", "i", "l", "l">>),
    StrCell(<<"D", "e", "b", "t", " ", "A", "l", "i">>),
    StrCell(<<"R", "E", "N", "T">>),
    StrCell(<<"ar_dal", "ar_ya", "ar_nun", " ", "ar_fa", "ar_alif", "ar_ta", "ar_waw", "ar_ra", "ar_ta_marbuta">>),
    StrCell(<<"ar_qaf", "ar_ra", "ar_dad">>),
    NumCell(700),
    Empty }

PriceCells ==
  { NumCell(500000),
    NumCell(0),
    NumCell(-700),
    C_1200,
    C_5000,
    StrCell(<<"1", ",", "2", "3", "4", ".", "5", "6", " ", "I", "Q", "D">>),
    StrCell(<<"a", "b", "c">>),
    StrCell(<<"0">>),
    StrCell(<<"-", "0", ".", "0", "0">>),
    Empty }

DateCells ==
  { C_date1,
    C_datetime,
    C_month13,
    StrCell(<<"0", "1", "/", "0", "2", "/", "2", "0", "2", "4">>),
    NumCell(4520000),
    Empty }

DataRows == {<<d, n, a>> : d \in DateCells, n \in NameCells, a \in PriceCells}

\* rows that may follow the first data row
MoreRows ==
  { << >>,
    <<C_date2, C_Acme, C_1200>>,
    <<C_date2, StrCell(<<"D", "e", "b", "t", " ", "A", "l", "i">>), StrCell(<<"a", "b", "c">>)>> }

RECURSIVE MoreRowSeqs(_)
MoreRowSeqs(n) ==
  IF n = 0 THEN {<< >>}
  ELSE MoreRowSeqs(n - 1) \cup {Append(q, r) : q \in MoreRowSeqs(n - 1), r \in MoreRows}

ClassifyGrids ==
  {<<Header3, r>> \o q : r \in DataRows, q \in MoreRowSeqs(MaxDataRows - 1)}

InitClassify ==
  /\ transactions = << >>
  /\ inventory = <<Item1>>
  /\ db = {}
  /\ invDb = {Item1}
  /\ isUploading = TRUE
  /\ error = ""
  /\ today \in Days
  /\ tasks = EmptyBag
  /\ ops = 0
  /\ lastImport = "none"
  /\ manualSold = [x \in ItemIds |-> 0]
  /\ grid \in ClassifyGrids
  /\ batch = << >>
  /\ view = NoView

\* lines 632-728 of worker.onmessage on the drawn grid
ClassifyGrid ==
  /\ lastImport = "none"
  /\ \E recs \in {classifyRows(grid, inventory, getToday)} :
       \E ids \in [1..Len(recs) -> IdPool] : batch' = withIds(recs, ids)
  /\ lastImport' = "classified"
  /\ UNCHANGED <<transactions, inventory, db, invDb, isUploading, error, today, tasks,
                 ops, manualSold, grid, view>>

NextClassify == ClassifyGrid

SpecClassify == InitClassify /\ [][NextClassify]_vars

(***************************************************************************)
(* Header detection over grids whose header-like row lies at any depth     *)
(***************************************************************************)
S_Name_Co == <<"N", "a", "m", "e", " ", "C", "o">>
S_Debt_Ali == <<"D", "e", "b", "t", " ", "A", "l", "i">>

\* rows that may stand above a header row: a usable three-cell record row and
\* a blank row
FillerRows == { <<C_date1, C_Acme, C_1200>>, << >> }

\* rows whose joined lower-case text contains 'name'
HeaderRows ==
  { Header3,
    <<StrCell(<<" ", "D", "a", "t", "e">>), StrCell(<<"N", "a", "m", "e">>),
      StrCell(<<"P", "R", "I", "C", "E", " ">>)>>,
    <<StrCell(S_date), StrCell(S_name), StrCell(S_price), StrCell(S_product),
      StrCell(S_amount), StrCell(S_time)>>,
    <<StrCell(S_time), StrCell(S_menu_item_name)>>,
    <<StrCell(<<"c", "u", "s", "t", "o", "m", "e", "r", " ", "n", "a", "m", "e">>),
      StrCell(<<"i", "d">>), StrCell(S_actual_selling_price)>>,
    <<C_date2, StrCell(S_Name_Co), NumCell(70000)>> }

\* a record row whose cells differ from column to column
WideRow ==
  <<C_date1, C_Acme, C_1200, StrCell(S_Debt_Ali), NumCell(30000), C_date2,
    StrCell(<<"R", "E", "N", "T">>), Empty, NumCell(500000)>>

RECURSIVE Repeat(_, _)
Repeat(row, n) == IF n = 0 THEN << >> ELSE <<row>> \o Repeat(row, n - 1)

\* k filler rows, then a header-like row or none, a record row, and a second
\* header-like row or none followed by a record row
HeaderGrids ==
  { Repeat(f, k) \o h \o <<WideRow>> \o h2 :
      f \in FillerRows, k \in 0..MaxLead,
      h \in {<< >>} \cup {<<r>> : r \in HeaderRows},
      h2 \in {<< >>, <<Header3, WideRow>>} }

InitHeader ==
  /\ transactions = << >>
  /\ inventory = <<Item1>>
  /\ db = {}
  /\ invDb = {Item1}
  /\ isUploading = TRUE
  /\ error = ""
  /\ today \in Days
  /\ tasks = EmptyBag
  /\ ops = 0
  /\ lastImport = "none"
  /\ manualSold = [x \in ItemIds |-> 0]
  /\ grid \in HeaderGrids
  /\ batch = << >>
  /\ view = NoView

SpecHeader == InitHeader /\ [][NextClassify]_vars

(***************************************************************************)
(* The memoized values over small transaction sets                         *)
(*                                                                         *)
(* The store read by the first loadData may hold any record of the         *)
(* Transaction type (26-53).  A render computes the memoized values from   *)
(* the in-memory set; the edit modal rewrites the amount and the date of   *)
(* one record.                                                             *)
(***************************************************************************)
Tx(id, type, client, day, amount, currency, status) ==
  [id |-> id, type |-> type, client |-> client, itemId |-> "", date |-> DateStr(day),
   amount |-> amount * Scale, currency |-> currency, status |-> status, method |-> "Manual"]

ViewTxs ==
  { Tx(1, "sale", S_Bob, 1, 3040, "IQD", "completed"),
    Tx(2, "cash", S_ACME, 2, 5, "USD", "completed"),
    Tx(3, "sale", S_Bob, 2, 4, "USD", "pending"),
    Tx(4, "expense", S_Rent, 2, 1520, "IQD", "pending"),
    Tx(5, "debt", S_Ali, 1, 10, "IQD", "pending"),
    Tx(6, "debt", S_Ali, 2, 20, "USD", "pending"),
    Tx(7, "debt", S_Bob, 3, 7, "USD", "completed"),
    Tx(8, "debt", S_ACME, 1, 4, "USD", "failed") }

\* the records of S in ascending order of id
RECURSIVE ascending(_)
ascending(S) ==
  IF S = {} THEN << >>
  ELSE LET m == CHOOSE t \in S : \A u \in S : t.id <= u.id
       IN  <<m>> \o ascending(S \ {m})

reverse(l) == [i \in 1..Len(l) |-> l[Len(l) + 1 - i]]

\* the lists of at most n different records of ViewTxs, oldest first or
\* newest first
ViewLists(n) ==
  LET small == {S \in SUBSET ViewTxs : Cardinality(S) <= n}
  IN  {ascending(S) : S \in small} \cup {reverse(ascending(S)) : S \in small}

\* tab, search text of the tab and type filter of the history tab
DashboardSettings ==
  { [activeTab |-> "dashboard", search |-> << >>, historyFilterType |-> "all"],
    [activeTab |-> "dashboard", search |-> S_Ali, historyFilterType |-> "all"],
    [activeTab |-> "transactions", search |-> << >>, historyFilterType |-> "expense"] }

\* reportStartDate, reportEndDate and reportSearchTerm
ReportSettings ==
  { [reportStartDate |-> DateStr(1), reportEndDate |-> DateStr(3), reportSearchTerm |-> << >>],
    [reportStartDate |-> DateStr(2), reportEndDate |-> DateStr(3), reportSearchTerm |-> << >>],
    [reportStartDate |-> DateStr(1), reportEndDate |-> DateStr(3), reportSearchTerm |-> S_Bob] }

\* what the user types into the edit modal (1499): an amount of 0, an
\* emptied amount field, an emptied date field
EditForms ==
  { [setAmount |-> TRUE, amount |-> <<"0">>, setDate |-> FALSE, date |-> << >>],
    [setAmount |-> TRUE, amount |-> << >>, setDate |-> FALSE, date |-> << >>],
    [setAmount |-> FALSE, amount |-> << >>, setDate |-> TRUE, date |-> << >>] }

InitViews ==
  /\ transactions \in ViewLists(MaxViewTx)
  /\ inventory = <<Item1>>
  /\ db = {transactions[k] : k \in 1..Len(transactions)}
  /\ invDb = {Item1}
  /\ isUploading = FALSE
  /\ error = ""
  /\ today = 1
  /\ tasks = EmptyBag
  /\ ops = 0
  /\ lastImport = "none"
  /\ manualSold = [x \in ItemIds |-> 0]
  /\ grid = << >>
  /\ batch = << >>
  /\ view = NoView

\* filteredTransactions and dashboardStats as a render computes them
ComputeDashboardStats(s) ==
  /\ view' = [kind |-> "dashboard",
              working |-> filteredTransactions(transactions, s),
              stats |-> dashboardStats(filteredTransactions(transactions, s))]
  /\ UNCHANGED <<transactions, inventory, db, invDb, isUploading, error, today, tasks,
                 ops, lastImport, manualSold, grid, batch>>

\* reportStats as a render computes it
ComputeReportStats(r) ==
  /\ view' = [kind |-> "report",
              inRange |-> SelectSeq(transactions, LAMBDA t : inReport(t, r)),
              stats |-> reportStats(transactions, r)]
  /\ UNCHANGED <<transactions, inventory, db, invDb, isUploading, error, today, tasks,
                 ops, lastImport, manualSold, grid, batch>>

\* debtList as a render computes it
ComputeDebtList ==
  /\ view' = [kind |-> "debts", txs |-> transactions, list |-> debtList(transactions)]
  /\ UNCHANGED <<transactions, inventory, db, invDb, isUploading, error, today, tasks,
                 ops, lastImport, manualSold, grid, batch>>

\* the record held by the edit modal when the k-th record was opened and the
\* form typed in: amount is parseFloat of the field's text
editedItem(item, form) ==
  [item EXCEPT
     !.amount = IF ~form.setAmount THEN @
                ELSE IF parseFloat(form.amount).nan THEN NaNAmount
                ELSE parseFloat(form.amount).v,
     !.date = IF form.setDate THEN form.date ELSE @]

\* if (editingItem.amount <= 0) return;
editRejected(item) == item.amount # NaNAmount /\ item.amount <= 0

\* handleEditSave up to its await (570-574).  The modal covers the list
\* until the save has ended (576), so that no other record is opened
\* meanwhile; a second save of the open record is left out.
handleEditSave(k, form) ==
  /\ ops < MaxEdits
  /\ tasks = EmptyBag
  /\ k <= Len(transactions)
  /\ IF editRejected(editedItem(transactions[k], form))
     THEN UNCHANGED <<tasks, ops>>
     ELSE /\ tasks' = invoke([NoTask EXCEPT !.kind = "edit", !.pc = "put",
                                            !.tx = editedItem(transactions[k], form)])
          /\ ops' = ops + 1
  /\ UNCHANGED <<transactions, inventory, db, invDb, isUploading, error, today,
                 lastImport, manualSold, grid, batch, view>>

\* await dbOp(STORE_NAME, 'put', updatedTx); setTransactions(prev => prev.map(...));
\* the memoized values depend on transactions and are dropped with the old set
EditPut ==
  \E t \in InFlight :
    /\ t.kind = "edit" /\ t.pc = "put"
    /\ db' = put(db, t.tx)
    /\ transactions' = replaceById(transactions, t.tx)
    /\ tasks' = finish(t)
    /\ view' = NoView
    /\ UNCHANGED <<inventory, invDb, isUploading, error, today, ops, lastImport,
                   manualSold, grid, batch>>

NextViews ==
  \/ \E s \in DashboardSettings : ComputeDashboardStats(s)
  \/ \E r \in ReportSettings : ComputeReportStats(r)
  \/ ComputeDebtList
  \/ \E k \in 1..MaxViewTx, form \in EditForms : handleEditSave(k, form)
  \/ EditPut

SpecViews == InitViews /\ [][NextViews]_vars

(***************************************************************************)
(* The weekly buckets and the rankings of the report                       *)
(*                                                                         *)
(* Transaction sets of up to MaxRankTx records over seven clients and the  *)
(* seven days of a week, with the edit modal.                              *)
(***************************************************************************)
RankClients ==
  <<S_Bob, S_ACME, S_Ali, S_Rent, <<"C", "y">>, <<"D", "i">>, <<"E", "d">> >>

RankTypes == <<"sale", "debt", "cash", "expense">>

\* the i-th record of a list: the client, the day and the amount vary with i
\* and the step of the list; the list holds completed sales (kind 1), pending
\* debts (kind 2) or records of every type (kind 3)
rankTx(i, step, kind) ==
  Tx(i,
     IF kind = 1 THEN "sale" ELSE IF kind = 2 THEN "debt" ELSE RankTypes[(i % 4) + 1],
     RankClients[((i * step) % 7) + 1],
     (i % 7) + 1,
     IF i % 2 = 1 THEN ((i * step) % 4) + 1 ELSE EXCHANGE_RATE * (((i * step) % 4) + 1),
     IF i % 2 = 1 THEN "USD" ELSE "IQD",
     IF kind = 1 THEN "completed" ELSE IF kind = 2 THEN "pending"
     ELSE IF i % 3 = 0 THEN "pending" ELSE "completed")

\* the lists of step 1 hold completed sales, those of step 2 pending debts and
\* those of step 3 records of every type
RankLists ==
  {[i \in 1..n |-> rankTx(i, step, step)] : n \in 0..MaxRankTx, step \in 1..3}

\* the week, and its middle
RankSettings ==
  { [reportStartDate |-> DateStr(1), reportEndDate |-> DateStr(7), reportSearchTerm |-> << >>],
    [reportStartDate |-> DateStr(2), reportEndDate |-> DateStr(5), reportSearchTerm |-> << >>] }

\* the host's time zone: at or east of Greenwich, or west of it
Zones == {"east", "west"}

InitRanks ==
  /\ transactions \in RankLists
  /\ inventory = <<Item1>>
  /\ db = {transactions[k] : k \in 1..Len(transactions)}
  /\ invDb = {Item1}
  /\ isUploading = FALSE
  /\ error = ""
  /\ today = 1
  /\ tasks = EmptyBag
  /\ ops = 0
  /\ lastImport = "none"
  /\ manualSold = [x \in ItemIds |-> 0]
  /\ grid = << >>
  /\ batch = << >>
  /\ view = NoView

\* filteredTransactions on the dashboard with no search text
dashboardWorking ==
  filteredTransactions(transactions,
    [activeTab |-> "dashboard", search |-> << >>, historyFilterType |-> "all"])

\* weeklyData and totalSalesUSD of dashboardStats as a render computes them
ComputeWeeklyData(zone) ==
  /\ view' = [kind |-> "weekly", zone |-> zone,
              working |-> dashboardWorking,
              totalSalesUSD |-> dashboardStats(dashboardWorking).totalSalesUSD,
              weeklyData |-> weeklyData(dashboardWorking, zone)]
  /\ UNCHANGED <<transactions, inventory, db, invDb, isUploading, error, today, tasks,
                 ops, lastImport, manualSold, grid, batch>>

\* the rankings of reportStats as a render computes them
ComputeReportRanks(r, zone) ==
  /\ view' = [kind |-> "ranks", zone |-> zone,
              inRange |-> SelectSeq(transactions, LAMBDA t : inReport(t, r)),
              ranks |-> reportRanks(transactions, r, zone)]
  /\ UNCHANGED <<transactions, inventory, db, invDb, isUploading, error, today, tasks,
                 ops, lastImport, manualSold, grid, batch>>

NextRanks ==
  \/ \E zone \in Zones : ComputeWeeklyData(zone)
  \/ \E r \in RankSettings, zone \in Zones : ComputeReportRanks(r, zone)
  \/ \E k \in 1..MaxViewTx, form \in EditForms : handleEditSave(k, form)
  \/ EditPut

SpecRanks == InitRanks /\ [][NextRanks]_vars

(***************************************************************************)
(* Chart sampling over series of up to MaxSeries points                    *)
(***************************************************************************)
\* the limit passed at line 435
ChartLimit == 100

\* the i-th point of a series: day keys are numbered with three digits, so
\* that the series is in the order of its keys as the sort of line 433 leaves
\* it; revenue and expenses are halves that vary with i and with the step of
\* the series
seriesPoint(i, step) ==
  [date |-> NatToStr(i),
   revenue |-> Q((i * step) % 7, 2),
   expenses |-> Q((i + step) % 5, 2),
   fullDate |-> <<"d", DigitChars[((i \div 100) % 10) + 1],
                 DigitChars[((i \div 10) % 10) + 1], DigitChars[(i % 10) + 1]>>]

Series(length, step) == [i \in 1..length |-> seriesPoint(i, step)]

Steps == {1, 2, 3}

InitChart ==
  /\ transactions = << >>
  /\ inventory = <<Item1>>
  /\ db = {}
  /\ invDb = {Item1}
  /\ isUploading = FALSE
  /\ error = ""
  /\ today = 1
  /\ tasks = EmptyBag
  /\ ops = 0
  /\ lastImport = "none"
  /\ manualSold = [x \in ItemIds |-> 0]
  /\ grid = << >>
  /\ batch = << >>
  /\ \E length \in 0..MaxSeries, step \in Steps :
       view = [kind |-> "series", data |-> Series(length, step)]

\* chartData = optimizeChartData(rawChartData, 100)
OptimizeChart ==
  /\ view.kind = "series"
  /\ view' = [kind |-> "chart", data |-> view.data,
              chartData |-> optimizeChartData(view.data, ChartLimit)]
  /\ UNCHANGED <<transactions, inventory, db, invDb, isUploading, error, today, tasks,
                 ops, lastImport, manualSold, grid, batch>>

\* optimizeChartData applied to a series it has returned
OptimizeAgain ==
  /\ view.kind = "chart"
  /\ view' = [kind |-> "again", data |-> view.chartData,
              chartData |-> optimizeChartData(view.chartData, ChartLimit)]
  /\ UNCHANGED <<transactions, inventory, db, invDb, isUploading, error, today, tasks,
                 ops, lastImport, manualSold, grid, batch>>

NextChart == OptimizeChart \/ OptimizeAgain

SpecChart == InitChart /\ [][NextChart]_vars

(***************************************************************************)
(* The import and the notice timer under their scheduling                  *)
(*                                                                         *)
(* What the browser guarantees: a timeout that is not cleared fires, a     *)
(* worker that was posted a message answers (its handler is one try/catch, *)
(* and a fault outside it raises the error event), and an IndexedDB        *)
(* request completes.  What it does not guarantee: that the FileReader     *)
(* loads the file.  The user acts or not, as they please.                  *)
(***************************************************************************)
\* reader.readAsArrayBuffer(file) fails (752): the reader's error event has
\* no handler, reader.onload (751) never runs and the worker is never posted
\* the bytes; it stays as created (627), with nothing left to end it
ReaderError ==
  \E t \in InFlight :
    /\ t.kind = "import" /\ t.pc = "worker"
    /\ tasks' = become(t, [t EXCEPT !.pc = "unread"])
    /\ UNCHANGED <<transactions, inventory, db, invDb, isUploading, error, today, ops,
                   lastImport, manualSold, grid, batch, view>>

NextFair ==
  \/ FileInputChange
  \/ handleDrop
  \/ ReaderError
  \/ WorkerSuccess
  \/ WorkerFailure
  \/ WorkerError
  \/ ImportBulk
  \/ LoadGetTxs
  \/ LoadGetInv
  \/ handleDeleteConfirm
  \/ DeleteClear
  \/ ClearNotice
  \/ Tick

\* The three answers of the worker have one guard, an import whose worker was
\* posted the bytes: weak fairness of one of them says that the worker
\* answers, with whichever of the three.
Fairness ==
  /\ WF_vars(ClearNotice)
  /\ WF_vars(WorkerFailure)
  /\ WF_vars(ImportBulk)
  /\ WF_vars(LoadGetTxs)
  /\ WF_vars(LoadGetInv)
  /\ WF_vars(DeleteClear)

SpecFair == Init /\ [][NextFair]_vars /\ Fairness

(***************************************************************************)
(* Steps, recognised by what they do to the tasks                          *)
(***************************************************************************)
\* the settlement t ends with this step
SettleEnds(t) == t.kind = "settle" /\ t.idx = Len(t.txs) /\ tasks' = finish(t)

\* the settlement t is confirmed with this step
SettleBegins(t) == t.kind = "settle" /\ t.idx = 1 /\ tasks' = invoke(t)

\* the import t receives the worker's answer with this step
WorkerAnswers(t) ==
  t.kind = "import" /\ t.pc = "worker" /\ CopiesIn(t, tasks') < CopiesIn(t, tasks)

\* the import t writes its batch with this step
BatchWritten(t) ==
  t.kind = "import" /\ t.pc = "bulk" /\ CopiesIn(t, tasks') < CopiesIn(t, tasks)

\* a step of an import: its start, the worker's answer, the batch write or
\* one of the two reads of the reload
ImportStep ==
  \E t \in BagToSet(tasks) \cup BagToSet(tasks') :
    t.kind \in {"import", "load"} /\ CopiesIn(t, tasks') # CopiesIn(t, tasks)

NoManualInFlight == \A t \in InFlight : t.kind # "manual"

IsPendingDebtOf(t, c) == t.client = c /\ t.type = "debt" /\ t.status = "pending"

(***************************************************************************)
(* Claims                                                                  *)
(***************************************************************************)

C2_UniqueIds ==
  \A j, k \in 1..Len(transactions) : j # k => transactions[j].id # transactions[k].id

\* C3: the step that writes an import's batch B keeps every stored record as
\* it was, stores every record of B, and grows the store by |B|.
C3_StoreGrowsByBatch ==
  [][\A t \in InFlight : BatchWritten(t) =>
       /\ db \subseteq db'
       /\ \A k \in 1..Len(t.txs) : t.txs[k] \in db'
       /\ Cardinality(db') = Cardinality(db) + Len(t.txs)]_vars

\* C4: the batch holds one record per non-empty data row whose extracted
\* amount is a number other than 0, in row order and with that amount's
\* magnitude; a price cell that is 0, missing or without digits yields no
\* record; every record's amount is above 0.
C4_UsableRows ==
  {i \in 2..Len(grid) :
     /\ grid[i] # << >>
     /\ ~extractAmount(grid[i], 2).nan
     /\ extractAmount(grid[i], 2).v # 0}

C4_NthUsable(k) ==
  CHOOSE i \in C4_UsableRows : Cardinality({j \in C4_UsableRows : j <= i}) = k

C4_DroppedCells ==
  {NumCell(0), Empty, StrCell(<<"a", "b", "c">>), StrCell(<<"0">>),
   StrCell(<<"-", "0", ".", "0", "0">>)}

C4_AmountPositive ==
  lastImport = "classified" =>
    /\ Len(batch) = Cardinality(C4_UsableRows)
    /\ \A i \in 2..Len(grid) :
         (grid[i] # << >> /\ grid[i][3] \in C4_DroppedCells) => i \notin C4_UsableRows
    /\ \A k \in 1..Len(batch) :
         /\ batch[k].amount > 0
         /\ batch[k].amount = Abs(extractAmount(grid[C4_NthUsable(k)], 2).v)

\* a grid with a dropped row and a kept row has been classified
C4_Witness ==
  /\ lastImport = "classified"
  /\ Len(grid) = 3
  /\ grid[2][3] = StrCell(<<"a", "b", "c">>)
  /\ Len(batch) = 1
  /\ batch[1].amount = 120000

\* C5: the step that handles the worker's failure message sets the error.
C5_FailureSetsError ==
  [][\A t \in InFlight : (WorkerAnswers(t) /\ lastImport' = "failure") => error' # ""]_vars

\* C6: the step that handles a decoder failure (failure message or error
\* event) writes nothing: store and in-memory set are as before, and no
\* write or reload is left pending for that import.
C6_FailureWritesNothing ==
  [][\A t \in InFlight : (WorkerAnswers(t) /\ lastImport' \in {"failure", "error"}) =>
       /\ db' = db
       /\ transactions' = transactions
       /\ tasks' = finish(t)]_vars

\* an import has ended on the worker's failure message
C6_Witness == lastImport = "failure" /\ ~isUploading /\ ops > 0

\* C7: the step that finds no usable row in a decoded grid leaves the error
\* as it was, writes nothing, and returns the upload state to idle.
C7_EmptyBatchIsNoError ==
  [][\A t \in InFlight : (WorkerAnswers(t) /\ lastImport' = "empty") =>
       /\ error' = error
       /\ db' = db
       /\ transactions' = transactions
       /\ isUploading' = FALSE
       /\ tasks' = finish(t)]_vars

\* an import has ended with an empty batch and no error is shown
C7_Witness == lastImport = "empty" /\ ~isUploading /\ error = ""

\* C8: with no manual entry in flight, every item's quantity, in memory and
\* in the store, is its initial quantity minus the number of recorded manual
\* sales and debts that named it.
C8_StockCountsSales ==
  NoManualInFlight =>
    /\ \A k \in 1..Len(inventory) :
         inventory[k].quantity = InitQty - manualSold[inventory[k].id]
    /\ \A it \in invDb : it.quantity = InitQty - manualSold[it.id]

\* C9: no step of an import changes the inventory, in memory or in the store.
C9_ImportKeepsInventory ==
  [][ImportStep => inventory' = inventory /\ invDb' = invDb]_vars

\* C10: in every record of the batch, type and status follow from the
\* keywords in the lowercased name: expense/completed with an expense
\* keyword, else debt/pending with a debt keyword, else sale/completed.
C10_HasExpenseKeyword(name) == \E k \in expenseKeywords : includes(toLowerCase(name), k)

C10_HasDebtKeyword(name) == \E k \in debtKeywords : includes(toLowerCase(name), k)

C10_KeywordClassification ==
  lastImport = "classified" =>
    \A k \in 1..Len(batch) :
      LET r == batch[k]
      IN  /\ C10_HasExpenseKeyword(r.client) => r.type = "expense" /\ r.status = "completed"
          /\ (~C10_HasExpenseKeyword(r.client) /\ C10_HasDebtKeyword(r.client)) =>
                r.type = "debt" /\ r.status = "pending"
          /\ (~C10_HasExpenseKeyword(r.client) /\ ~C10_HasDebtKeyword(r.client)) =>
                r.type = "sale" /\ r.status = "completed"
          /\ r.type \notin {"refund", "cash"}
          /\ r.status # "failed"

\* a name with both an expense and a debt keyword has been classified
C10_Witness ==
  /\ lastImport = "classified"
  /\ \E k \in 1..Len(batch) :
       /\ C10_HasExpenseKeyword(batch[k].client)
       /\ C10_HasDebtKeyword(batch[k].client)
       /\ batch[k].type = "expense"

\* 0-based indices of the rows of the grid that the row loop turns into a
\* record: those from startDataRow on that are not skipped
producedRows ==
  {i \in locateColumns(grid).startDataRow..(Len(grid) - 1) :
     ~rowSkipped(grid[i + 1], locateColumns(grid))}

nthProduced(k) ==
  CHOOSE i \in producedRows : Cardinality({j \in producedRows : j <= i}) = k

\* C11: the header row is the lowest-index row among the first 10 rows of the
\* grid whose joined lower-case cells contain 'menu_item_name' or 'name'; a
\* row of index 10 or more is never the header; the row loop starts right
\* below the header, or at row 1 when there is none, so that the batch holds
\* one record per usable row below that point and none for a row at or above
\* the header.
C11_HeaderIsFirstOfTen ==
  lastImport = "classified" =>
    LET cols == locateColumns(grid)
        h == cols.headerRowIndex
        candidates ==
          {i \in 0..(Len(grid) - 1) :
             /\ i < 10
             /\ \/ includes(toLowerCase(joinCells(grid[i + 1])), S_menu_item_name)
                \/ includes(toLowerCase(joinCells(grid[i + 1])), S_name)}
    IN  /\ h < 10
        /\ (candidates = {}) <=> (h = -1)
        /\ h # -1 => /\ h \in candidates
                     /\ \A i \in candidates : h <= i
        /\ cols.startDataRow = (IF h = -1 THEN 1 ELSE h + 1)
        /\ \A i \in producedRows : i > h /\ i >= 1
        /\ Len(batch) = Cardinality(producedRows)
        /\ \A k \in 1..Len(batch) :
             /\ batch[k].client = extractName(grid[nthProduced(k) + 1], cols.nameColIndex)
             /\ batch[k].amount =
                  Abs(extractAmount(grid[nthProduced(k) + 1], cols.priceColIndex).v)

\* a grid has been classified whose header is its third row, below two record
\* rows and above a second header-like row: only the two rows below the
\* header that carry an amount became records
C11_Witness ==
  /\ lastImport = "classified"
  /\ Len(grid) = 6
  /\ grid[1] = <<C_date1, C_Acme, C_1200>>
  /\ grid[3] = Header3
  /\ grid[5] = Header3
  /\ locateColumns(grid).headerRowIndex = 2
  /\ Len(batch) = 2
  /\ batch[1].amount = 120000

\* C12: each of the name, price and date columns is the highest index of a
\* header cell whose trimmed lower-case text equals one of its labels, and
\* its fixed index (3, 8, 0) when no header cell matches or no header row
\* was found, each column on its own; the records of the batch take their
\* name, amount and date from these columns.
C12_LastLabelWins ==
  lastImport = "classified" =>
    LET cols == locateColumns(grid)
        h == headerRowIndex(grid)
        matching(labels) ==
          IF h = -1 THEN {}
          ELSE {idx \in 0..(Len(grid[h + 1]) - 1) :
                  trim(toLowerCase(CellToString(grid[h + 1][idx + 1]))) \in labels}
        column(labels, fallback) ==
          IF matching(labels) = {} THEN fallback
          ELSE CHOOSE m \in matching(labels) : \A i \in matching(labels) : i <= m
        nameCol == column({S_menu_item_name, S_name, S_product}, 3)
        priceCol == column({S_actual_selling_price, S_price, S_amount}, 8)
        dateCol == column({S_date, S_time}, 0)
    IN  /\ cols.nameColIndex = nameCol
        /\ cols.priceColIndex = priceCol
        /\ cols.dateColIndex = dateCol
        /\ \A k \in 1..Len(batch) :
             LET row == grid[nthProduced(k) + 1]
             IN  /\ batch[k].client = extractName(row, nameCol)
                 /\ batch[k].amount = Abs(extractAmount(row, priceCol).v)
                 /\ batch[k].date = extractDate(row, dateCol, getToday)

\* a grid has been classified whose header names every column twice: the
\* record of the row below it is read from the later column of each pair
C12_Witness ==
  /\ lastImport = "classified"
  /\ Len(grid) = 2
  /\ Len(grid[1]) = 6
  /\ grid[1][2] = StrCell(S_name)
  /\ grid[1][4] = StrCell(S_product)
  /\ locateColumns(grid).nameColIndex = 3
  /\ locateColumns(grid).priceColIndex = 4
  /\ locateColumns(grid).dateColIndex = 5
  /\ Len(batch) = 1
  /\ batch[1].client = S_Debt_Ali
  /\ batch[1].amount = 30000
  /\ batch[1].date = C_date2.s

\* C13: a record's date is its row's date cell when that cell is a string of
\* exactly the form YYYY-MM-DD naming a calendar day, and the current date
\* for every other content of the cell (missing, a number, any other string).
C13_DateOrToday ==
  lastImport = "classified" =>
    \A k \in 1..Len(batch) :
      LET cell == CellAt(grid[nthProduced(k) + 1], locateColumns(grid).dateColIndex)
      IN  batch[k].date = (IF cell.t = "str" /\ isCalendarDay(cell.s) THEN cell.s
                           ELSE getToday)

\* C14: when every data row under the header [date, name, price] carries a
\* date of the form YYYY-MM-DD, a name and a price whose number is not 0, the
\* batch has one record per data row, in row order, with the row's date, its
\* name, the magnitude of its price, and the type and status that the
\* keywords of the name give.
C14_OneRecordPerRow ==
  (/\ lastImport = "classified"
   /\ grid[1] = Header3
   /\ \A i \in 2..Len(grid) :
        /\ Len(grid[i]) = 3
        /\ grid[i][1].t = "str" /\ isCalendarDay(grid[i][1].s)
        /\ Truthy(grid[i][2])
        /\ ~extractAmount(grid[i], 2).nan
        /\ extractAmount(grid[i], 2).v # 0) =>
    /\ Len(batch) = Len(grid) - 1
    /\ \A k \in 1..Len(batch) :
         LET row == grid[k + 1]
             name == CellToString(row[2])
         IN  /\ batch[k].date = row[1].s
             /\ batch[k].client = name
             /\ batch[k].amount = Abs(extractAmount(row, 2).v)
             /\ batch[k].type = (IF C10_HasExpenseKeyword(name) THEN "expense"
                                 ELSE IF C10_HasDebtKeyword(name) THEN "debt"
                                 ELSE "sale")
             /\ batch[k].status = (IF C10_HasExpenseKeyword(name) THEN "completed"
                                   ELSE IF C10_HasDebtKeyword(name) THEN "pending"
                                   ELSE "completed")

\* the grid of the two rows (2024-01-01, invoice, '5000') and (2024-01-02,
\* 'Acme', '1200') has been classified on a later day into an expense of 5000
\* and a sale of 1200, both completed
C14_Witness ==
  /\ lastImport = "classified"
  /\ grid = <<Header3, <<C_date1, C_invoice, C_5000>>, <<C_date2, C_Acme, C_1200>> >>
  /\ today = 2
  /\ Len(batch) = 2
  /\ batch[1].type = "expense" /\ batch[1].amount = 5000 * Scale
  /\ batch[1].status = "completed" /\ batch[1].date = C_date1.s
  /\ batch[2].type = "sale" /\ batch[2].amount = 1200 * Scale
  /\ batch[2].status = "completed" /\ batch[2].date = C_date2.s

RECURSIVE sumUnits(_, _)
\* the normalized amounts of the records of W at the indices S, summed in
\* units of 1/(Scale * EXCHANGE_RATE)
sumUnits(W, S) ==
  IF S = {} THEN 0
  ELSE LET i == CHOOSE i \in S : TRUE
       IN  (IF W[i].currency = "IQD" THEN W[i].amount ELSE W[i].amount * EXCHANGE_RATE)
             + sumUnits(W, S \ {i})

\* the sum of the normalized amounts of the records of W at the indices S
normalizedSum(W, S) ==
  IF \E i \in S : W[i].amount = NaNAmount THEN QNaN
  ELSE Q(sumUnits(W, S), Scale * EXCHANGE_RATE)

\* C15: over the working set of the dashboard, totalSalesUSD is the sum of
\* the normalized amounts of the completed sale and cash records,
\* totalExpenses that of the expense records of any status, totalDebt that
\* of the debt records that are not completed, times the exchange rate;
\* netProfit is totalSalesUSD - totalExpenses and totalSalesIQD is
\* totalSalesUSD * 1520; no record is in two of the three sums.
C15_DashboardSums ==
  view.kind = "dashboard" =>
    LET W == view.working
        sales == {i \in 1..Len(W) : W[i].type \in {"sale", "cash"} /\ W[i].status = "completed"}
        expenses == {i \in 1..Len(W) : W[i].type = "expense"}
        debts == {i \in 1..Len(W) : W[i].type = "debt" /\ W[i].status # "completed"}
    IN  /\ view.stats.totalSalesUSD = normalizedSum(W, sales)
        /\ view.stats.totalExpenses = normalizedSum(W, expenses)
        /\ view.stats.totalDebt = QMul(normalizedSum(W, debts), QInt(1520))
        /\ view.stats.netProfit = QSub(view.stats.totalSalesUSD, view.stats.totalExpenses)
        /\ view.stats.totalSalesIQD = QMul(view.stats.totalSalesUSD, QInt(1520))
        /\ sales \cap expenses = {} /\ sales \cap debts = {} /\ expenses \cap debts = {}

\* the dashboard statistics of a completed sale of 3040 IQD and an expense of
\* 1520 IQD: sales of 2, expenses of 1, a profit of 1, sales of 3040 in IQD
C15_Witness ==
  /\ view.kind = "dashboard"
  /\ Len(view.working) = 2
  /\ \E i \in 1..2 : view.working[i].type = "sale" /\ view.working[i].status = "completed"
  /\ \E i \in 1..2 : view.working[i].type = "expense"
  /\ view.stats.totalSalesUSD = QInt(2)
  /\ view.stats.totalExpenses = QInt(1)
  /\ view.stats.netProfit = QInt(1)
  /\ view.stats.totalSalesIQD = QInt(3040)

C17_RateOfCollectedDebt ==
  view.kind = "report" =>
    LET W == view.inRange
        debts == {i \in 1..Len(W) : W[i].type = "debt"}
        collected == normalizedSum(W, {i \in debts : W[i].status = "completed"})
        pending == normalizedSum(W, {i \in debts : W[i].status = "pending"})
        rate == view.stats.collectionRate
    IN  /\ rate = (IF collected = QInt(0) /\ pending = QInt(0) THEN QInt(0)
                   ELSE QMul(QDiv(collected, QAdd(collected, pending)), QInt(100)))
        /\ debts = {} => rate = QInt(0)
        /\ (debts # {} /\ \A i \in debts : W[i].status = "completed") => rate = QInt(100)
        /\ QLe(QInt(0), rate) /\ QLe(rate, QInt(100))

\* C18: a series longer than the limit of 100 comes back with at least 1 and
\* at most 100 points; a series of at most 100 points comes back unchanged;
\* the function applied to a series it has returned returns that series.
C18_AtMostLimit ==
  view.kind \in {"chart", "again"} =>
    /\ Len(view.data) > 100 => Len(view.chartData) \in 1..100
    /\ Len(view.data) <= 100 => view.chartData = view.data
    /\ view.kind = "again" => view.chartData = view.data

\* a series of more than 100 points has been sampled down, and the sampled
\* series has gone through the function again unchanged
C18_Witness ==
  /\ view.kind = "again"
  /\ Len(view.data) = 67
  /\ view.chartData = view.data
  /\ view.data[2].fullDate = <<"d", "0", "0", "4">>

RECURSIVE sumAmounts(_, _)
\* the sum of the amounts of the records of W at the indices S, in hundredths
sumAmounts(W, S) ==
  IF S = {} THEN 0
  ELSE LET i == CHOOSE i \in S : TRUE
       IN  W[i].amount + sumAmounts(W, S \ {i})

\* C19: the debt list has one summary per client with a pending debt and no
\* other; a client's summary holds the sum of the amounts of the client's
\* pending debts, their number, and as lastDate one of their dates that no
\* other of their dates is later than in the calendar.
C19_OneSummaryPerDebtor ==
  view.kind = "debts" =>
    LET W == view.txs
        pending == {i \in 1..Len(W) : W[i].type = "debt" /\ W[i].status = "pending"}
        of(c) == {i \in pending : W[i].client = c}
    IN  /\ {view.list[k].name : k \in 1..Len(view.list)} = {W[i].client : i \in pending}
        /\ Len(view.list) = Cardinality({W[i].client : i \in pending})
        /\ \A k \in 1..Len(view.list) :
             LET s == view.list[k]
             IN  /\ s.count = Cardinality(of(s.name))
                 /\ s.total = (IF \E i \in of(s.name) : W[i].amount = NaNAmount THEN QNaN
                               ELSE Q(sumAmounts(W, of(s.name)), Scale))
                 /\ \E i \in of(s.name) : s.lastDate = W[i].date
                 /\ \A i \in of(s.name) :
                      isCalendarDay(W[i].date) =>
                        /\ isCalendarDay(s.lastDate)
                        /\ getTime(s.lastDate).v >= getTime(W[i].date).v

\* C20: at no time are two imports being processed: of the handlers in
\* flight at most one is an import whose worker has not been terminated, and
\* while there is one isUploading is true, which keeps the zone's click, the
\* file input and the drop from starting another.
C20_OneImportInFlight ==
  LET imports == {t \in InFlight : t.kind = "import"}
  IN  /\ Cardinality(imports) <= 1
      /\ \A t \in imports : CopiesIn(t, tasks) = 1
      /\ imports # {} => isUploading

\* an import waits for its worker while the reload of an earlier import,
\* whose worker has been terminated, is still in flight
C20_Witness ==
  /\ isUploading
  /\ \E t \in InFlight : t.kind = "import" /\ t.pc = "worker"
  /\ \E u \in InFlight : u.kind = "load"
  /\ db # {}

\* C21: an error that is shown is eventually reset to null by the timer of
\* the notice effect, with no step of the user needed; and while it is shown
\* the application goes on: a new operation can be started as far as the
\* bounds let any start, the import is open again, and every handler in
\* flight can take its next step.
C21_ErrorIsTransient ==
  /\ (error # "") ~> (error = "")
  /\ [](error # "" =>
          /\ ENABLED ClearNotice
          /\ CanInvoke => ENABLED handleDeleteConfirm
          /\ (CanInvoke /\ ~isUploading) => (ENABLED FileInputChange /\ ENABLED handleDrop)
          /\ \A t \in InFlight :
               /\ (t.kind = "import" /\ t.pc = "worker") =>
                    (ENABLED WorkerFailure /\ ENABLED WorkerError)
               /\ (t.kind = "import" /\ t.pc = "bulk") => ENABLED ImportBulk
               /\ (t.kind = "load") => ENABLED (LoadGetTxs \/ LoadGetInv)
               /\ (t.kind = "delete") => ENABLED DeleteClear)

\* the worker's error event set the error, the timer has reset it, and an
\* import started since then is with its worker
C21_Witness ==
  /\ lastImport = "error"
  /\ error = ""
  /\ isUploading
  /\ \E t \in InFlight : t.kind = "import" /\ t.pc = "worker"

\* C22: a settlement's write of a debt that is no longer in the store, the
\* record having been deleted since the settlement was confirmed, is a
\* no-op: the step leaves the store and the transaction set as they were
\* and raises no error.
C22_DeletedStaysDeleted ==
  [][\A t \in InFlight :
       (/\ t.kind = "settle"
        /\ CopiesIn(t, tasks') < CopiesIn(t, tasks)
        /\ \A x \in db : x.id # t.txs[t.idx].id) =>
         /\ db' = db
         /\ transactions' = transactions
         /\ error' = error]_vars

\* C23: the step that ends a settlement of client c changes, of the
\* transaction set, only the status and the date of pending debts of c;
\* every other field of these, every other transaction and the number of
\* transactions are as before; no step of a settlement changes an inventory
\* item, in memory or in the store.
C23_SettleChangesStatusAndDate ==
  [][\A t \in InFlight :
       (t.kind = "settle" /\ CopiesIn(t, tasks') < CopiesIn(t, tasks)) =>
         /\ inventory' = inventory
         /\ invDb' = invDb
         /\ Len(transactions') = Len(transactions)
         /\ \A k \in 1..Len(transactions) :
              IF IsPendingDebtOf(transactions[k], t.txs[1].client)
              THEN transactions'[k] =
                     [transactions[k] EXCEPT !.status = transactions'[k].status,
                                             !.date = transactions'[k].date]
              ELSE transactions'[k] = transactions[k]]_vars

\* C24: weeklyData has 7 buckets with dayIndex 0 to 6; bucket k holds the
\* sum of the normalized amounts of the completed sale and cash records
\* whose date is a day of the calendar that falls on weekday k (0 being
\* Sunday); totalSalesUSD is the sum over all completed sale and cash
\* records, so that a record with an unparseable date is in the total and in
\* no bucket; and the buckets add up to totalSalesUSD exactly when every
\* completed sale has a parseable date.
C24_WeeklyBuckets ==
  view.kind = "weekly" =>
    LET W == view.working
        sales == {i \in 1..Len(W) : W[i].type \in {"sale", "cash"} /\ W[i].status = "completed"}
        dated == {i \in sales : isCalendarDay(W[i].date)}
        \* the weekday of a day of January 2024, the 7th being a Sunday
        weekday(i) == DigitsValue(SubSeq(W[i].date, 9, 10)) % 7
        bucket(k) == view.weeklyData[k + 1].total
        total == QAdd(QAdd(QAdd(bucket(0), bucket(1)), QAdd(bucket(2), bucket(3))),
                      QAdd(QAdd(bucket(4), bucket(5)), bucket(6)))
    IN  /\ Len(view.weeklyData) = 7
        /\ \A k \in 0..6 :
             /\ view.weeklyData[k + 1].dayIndex = k
             /\ bucket(k) = normalizedSum(W, {i \in dated : weekday(i) = k})
        /\ view.totalSalesUSD = normalizedSum(W, sales)
        /\ ~view.totalSalesUSD.nan => ((total = view.totalSalesUSD) <=> (dated = sales))

RECURSIVE sumOver(_, _, _, _)
\* the sum of the field of the points a..b of a series
sumOver(data, a, b, field) ==
  IF a > b THEN QInt(0) ELSE QAdd(data[a][field], sumOver(data, a + 1, b, field))

\* r is the integer nearest to sum / n, the upper one of two equally near
isRoundedMean(r, sum, n) ==
  /\ ~r.nan /\ r.d = 1
  /\ (2 * r.n - 1) * sum.d * n <= 2 * sum.n
  /\ 2 * sum.n < (2 * r.n + 1) * sum.d * n

\* C25: a series of L points, L above the limit, is cut from its start into
\* windows of w = ceil(L / limit) points each, the last one holding what is
\* left (at least one point); the result has one point per window, in the
\* order of the windows, labelled with the date of the window's first point
\* and holding the rounded means of the window's revenue and expenses; the
\* keys of the result ascend.
C25_WindowsAndMeans ==
  (view.kind = "chart" /\ Len(view.data) > ChartLimit) =>
    LET data == view.data
        out == view.chartData
        L == Len(data)
        w == CHOOSE n \in 1..L : n * ChartLimit >= L /\ (n - 1) * ChartLimit < L
        first(j) == (j - 1) * w + 1
        last(j) == IF j * w < L THEN j * w ELSE L
    IN  /\ (Len(out) - 1) * w < L
        /\ Len(out) * w >= L
        /\ \A j \in 1..Len(out) :
             /\ out[j].date = data[first(j)].date
             /\ out[j].fullDate = data[first(j)].fullDate
             /\ isRoundedMean(out[j].revenue, sumOver(data, first(j), last(j), "revenue"),
                              last(j) - first(j) + 1)
             /\ isRoundedMean(out[j].expenses, sumOver(data, first(j), last(j), "expenses"),
                              last(j) - first(j) + 1)
        /\ \A j \in 1..(Len(out) - 1) :
             DigitsValue(Tail(out[j].fullDate)) < DigitsValue(Tail(out[j + 1].fullDate))

\* a series of 205 points sampled with windows of 3: 69 points, the last one
\* being the 205th point alone, the second one the mean of the points 4 to 6
C25_Witness ==
  /\ view.kind = "chart"
  /\ Len(view.data) = 205
  /\ view.data[4].revenue = Q(4, 2) /\ view.data[5].revenue = Q(5, 2)
  /\ view.data[6].revenue = Q(6, 2)
  /\ Len(view.chartData) = 69
  /\ view.chartData[2].revenue = QInt(3)
  /\ view.chartData[2].fullDate = <<"d", "0", "0", "4">>
  /\ view.chartData[69].fullDate = <<"d", "2", "0", "5">>

\* C28: every transaction of the set, and of the store, has an amount that
\* is a number above 0.
C28_AmountsArePositive ==
  /\ \A k \in 1..Len(transactions) :
       transactions[k].amount # NaNAmount /\ transactions[k].amount > 0
  /\ \A x \in db : x.amount # NaNAmount /\ x.amount > 0

\* C29: when no handler is in flight the transaction set holds the records
\* of the store, each once.
C29_MemoryIsStoreWhenIdle ==
  tasks = EmptyBag =>
    /\ {transactions[k] : k \in 1..Len(transactions)} = db
    /\ Len(transactions) = Cardinality(db)
    /\ \A x, y \in db : x.id = y.id => x = y

\* C30: every started import finishes: once isUploading is true it is
\* eventually false again, with no import left whose worker was not
\* terminated; and isUploading is true for as long as an import has its
\* worker.
C30_ImportFinishes ==
  /\ isUploading ~> (~isUploading /\ \A t \in InFlight : t.kind # "import")
  /\ []((\E t \in InFlight : t.kind = "import") => isUploading)

\* the sum and the count of the records of a client in a list, added in the
\* order of the list
RECURSIVE clientTotal(_, _, _)
clientTotal(list, c, acc) ==
  IF list = << >> THEN acc
  ELSE clientTotal(Tail(list), c,
         IF Head(list).client = c
         THEN [amount |-> QAdd(acc.amount, normalized(Head(list))), count |-> acc.count + 1]
         ELSE acc)

\* out ranks the clients of list: at most five entries, one for each of the
\* clients up to five, each with that client's sum, no entry above an entry
\* before it, and no client left out above an entry
isRanking(out, list) ==
  LET clients == {list[k].client : k \in 1..Len(list)}
      total(c) == clientTotal(list, c, [amount |-> QInt(0), count |-> 0])
      named == {out[i].name : i \in 1..Len(out)}
  IN  /\ Len(out) <= 5
      /\ Len(out) = IF Cardinality(clients) < 5 THEN Cardinality(clients) ELSE 5
      /\ named \subseteq clients
      /\ Cardinality(named) = Len(out)
      /\ \A i \in 1..Len(out) : out[i].amount = total(out[i].name).amount
      /\ \A i, j \in 1..Len(out) : i < j => ~QGt(out[j].amount, out[i].amount)
      /\ \A c \in clients \ named, i \in 1..Len(out) : ~QGt(total(c).amount, out[i].amount)

\* C27: in every report, topProducts and topDebtors hold at most five
\* entries, one for each distinct client, in descending order of the summed
\* amount, with no client left out whose sum is above that of a client
\* included; topDebtors sums the pending debts in the range, and topProducts
\* the sales in the range with their count.
C27_TopFiveRankings ==
  view.kind = "ranks" =>
    LET sales == SelectSeq(view.inRange,
                   LAMBDA t : t.type = "sale" /\ t.status = "completed")
        debts == SelectSeq(view.inRange,
                   LAMBDA t : t.type = "debt" /\ t.status = "pending")
    IN  /\ isRanking(view.ranks.topProducts, sales)
        /\ isRanking(view.ranks.topDebtors, debts)
        /\ \A i \in 1..Len(view.ranks.topProducts) :
             view.ranks.topProducts[i].count =
               clientTotal(sales, view.ranks.topProducts[i].name,
                           [amount |-> QInt(0), count |-> 0]).count

====
